---- MODULE Spec2Model ----
(***************************************************************************)
(* technitium-companion: the Reconciliation Engine (package reconciler),   *)
(* the DNS gateway it drives (package technitium), the label parser        *)
(* (package traefik), the hostname filter (package config), the event      *)
(* watcher (package watcher) and the process entry point (cmd), as one     *)
(* state machine.                                                          *)
(*                                                                         *)
(* Abstractions: a regular expression is the set of hostnames it matches;  *)
(* a label key is the sequence of its dot-separated parts; a rule string   *)
(* is the sequence of its Host(`...`) captures; durations are counted in   *)
(* seconds; log lines are kept only where a property reads them.           *)
(***************************************************************************)
EXTENDS Naturals, Integers, Sequences, FiniteSets, TLC

\* ------------------------------------------------------------------ bounds
MaxEvents   == 3   \* lifecycle events delivered to the watcher
MaxApiCalls == 2   \* direct calls of the engine's entry points
MaxFaults   == 1   \* injected platform / gateway failures

\* --------------------------------------------------------------- constants
DebounceInterval == 5      \* seconds
DefaultTTL       == 300
ShortIDLen       == 12     \* event.Actor.ID[:12]

TechnitiumZone == "example.com"
TargetIP       == "10.0.0.1"
OtherIP        == "192.0.2.7"

HostApp  == "app.example.com"
HostWeb  == "web.example.com"
HostTest == "test.example.com"
Hosts    == {HostApp, HostWeb, HostTest}

Range(s) == {s[i] : i \in DOMAIN s}

\* ------------------------------------------------------- package config
\* An optional compiled pattern: nil, or the set of hostnames it matches.
NilPattern     == [nil |-> TRUE, matches |-> {}]
Pattern(m)     == [nil |-> FALSE, matches |-> m]
MatchString(p, hostname) == hostname \in p.matches

\* (mutant) a hostname that matches the include pattern passes at once
MatchesFiltersIncludeWins(c, hostname) ==
    IF ~c.IncludePattern.nil
    THEN MatchString(c.IncludePattern, hostname)
    ELSE ~(~c.ExcludePattern.nil /\ MatchString(c.ExcludePattern, hostname))

MatchesFilters(c, hostname) ==
    IF ~c.IncludePattern.nil /\ ~MatchString(c.IncludePattern, hostname)
    THEN FALSE
    ELSE IF ~c.ExcludePattern.nil /\ MatchString(c.ExcludePattern, hostname)
         THEN FALSE
         ELSE TRUE

\* ------------------------------------------------------- package traefik
RuleKey(router) == <<"traefik", "http", "routers", router, "rule">>
EnableKey       == <<"traefik", "enable">>
PortKey         == <<"traefik", "http", "services", "app", "loadbalancer", "server", "port">>

\* strings.HasPrefix(key, "traefik.http.routers.") on the parts of key
HasRouterPrefix(key) ==
    /\ Len(key) >= 4
    /\ key[1] = "traefik" /\ key[2] = "http" /\ key[3] = "routers"

\* strings.HasSuffix(key, ".rule") on the parts of key
HasRuleSuffix(key) == Len(key) >= 2 /\ key[Len(key)] = "rule"

isRouterRuleLabel(key) ==
    IF ~HasRouterPrefix(key) THEN FALSE
    ELSE IF ~HasRuleSuffix(key) THEN FALSE
    ELSE IF Len(key) < 5 THEN FALSE
    ELSE TRUE

\* strings.TrimSpace on the captures that occur in the model
TrimSpace(s) ==
    CASE s = " "               -> ""
      [] s = " app.example.com" -> HostApp
      [] OTHER                 -> s

\* the inner loop without the seen-map
AppendHostNoDedup(hosts, capture) ==
    LET hostname == TrimSpace(capture)
    IN  IF hostname = "" THEN hosts
        ELSE Append(hosts, hostname)

\* one regexp match of ExtractHosts' inner loop: trim, skip empty, deduplicate
AppendHost(hosts, capture) ==
    LET hostname == TrimSpace(capture)
    IN  IF hostname = "" THEN hosts
        ELSE IF hostname \in Range(hosts) THEN hosts
        ELSE Append(hosts, hostname)

RECURSIVE ExtractMatches(_, _)
ExtractMatches(matches, hosts) ==
    IF matches = <<>> THEN hosts
    ELSE ExtractMatches(Tail(matches), AppendHost(hosts, Head(matches)))

\* ExtractHosts with the map iterated in the key order `order`
RECURSIVE ExtractHostsInOrder(_, _, _)
ExtractHostsInOrder(labels, order, hosts) ==
    IF order = <<>> THEN hosts
    ELSE LET key == Head(order)
         IN  ExtractHostsInOrder(labels, Tail(order),
                 IF isRouterRuleLabel(key)
                 THEN ExtractMatches(labels[key], hosts)
                 ELSE hosts)

\* the iteration orders of a Go map: every permutation of its keys
KeyOrders(labels) ==
    LET K == DOMAIN labels
        n == Cardinality(K)
    IN  {o \in [1..n -> K] : \A i, j \in 1..n : i # j => o[i] # o[j]}

\* every slice ExtractHosts may return for a label map
ExtractHosts(labels) ==
    {ExtractHostsInOrder(labels, o, <<>>) : o \in KeyOrders(labels)}

\* ------------------------------------------------------- package docker
ModeSwarm      == "swarm"
ModeStandalone == "standalone"

\* what the platform may hold: ID, Name and Labels of services / containers
NoLabels == [k \in {} |-> <<>>]
PlatApp  == [ID |-> "id-app", Name |-> "app",
             Labels |-> (RuleKey("app") :> <<HostApp>>) @@ (EnableKey :> <<>>)]
PlatDuo  == [ID |-> "id-duo", Name |-> "duo",
             Labels |-> (RuleKey("a") :> <<HostWeb, " app.example.com">>)
                        @@ (RuleKey("b") :> <<HostApp, " ">>)]
PlatTest == [ID |-> "id-test", Name |-> "test",
             Labels |-> (RuleKey("t") :> <<HostTest, HostWeb>>)]
PlatBare == [ID |-> "id-bare", Name |-> "bare",
             Labels |-> (EnableKey :> <<>>) @@ (PortKey :> <<>>)]

Listings == { <<>>,
              <<PlatApp, PlatApp>>,
              <<PlatDuo, PlatBare, PlatTest>> }

ToWorkload(mode, p) ==
    [ID |-> p.ID, Name |-> p.Name, Labels |-> p.Labels,
     Type |-> IF mode = ModeSwarm THEN "service" ELSE "container"]

\* ListWorkloads on a platform holding `listing`
ListWorkloads(mode, listing) ==
    [i \in 1..Len(listing) |-> ToWorkload(mode, listing[i])]

\* --------------------------------------------------- deployments (Init)
PatExample == Pattern({HostApp, HostWeb, HostTest})   \* .*\.example\.com$
PatTest    == Pattern({HostTest})                     \* ^test\.

Config(dry, startup, inc, exc) ==
    [TechnitiumZone |-> TechnitiumZone, TargetIP |-> TargetIP, TTL |-> DefaultTTL,
     IncludePattern |-> inc, ExcludePattern |-> exc,
     ReconcileOnStartup |-> startup, DryRun |-> dry]

\* the deployments checked: configuration and detected mode
Deployments ==
    { [cfg |-> Config(FALSE, TRUE,  PatExample, PatTest), mode |-> ModeSwarm],
      [cfg |-> Config(TRUE,  TRUE,  PatExample, PatTest), mode |-> ModeStandalone],
      [cfg |-> Config(FALSE, FALSE, NilPattern, NilPattern), mode |-> ModeStandalone] }

ARecord(hostname, ip, ttl) == [name |-> hostname, type |-> "A", ip |-> ip, ttl |-> ttl]

\* the zone at start: app points elsewhere, web is already in place
InitialZone == {ARecord(HostApp, OtherIP, 60), ARecord(HostWeb, TargetIP, DefaultTTL)}

\* ------------------------------------------------------------ goroutines
MainCaller     == <<"main", 0>>
ApiCallers     == {<<"api", 1>>, <<"api", 2>>}
TimerIds       == 1..MaxEvents
TimerCaller(i) == <<"timer", i>>
Callers        == {MainCaller} \cup ApiCallers \cup {TimerCaller(i) : i \in TimerIds}
NoHolder       == <<"none", 0>>

OpReconcile          == "Reconcile"
OpReconcileHostnames == "ReconcileHostnames"
OpDeleteHostnames    == "DeleteHostnames"
EngineOps == {OpReconcile, OpReconcileHostnames, OpDeleteHostnames}
ApiArgs   == { <<>>, <<HostApp, HostApp>>, <<HostTest, HostWeb>> }
ApiInputs == {[op |-> OpReconcile, arg |-> <<>>]}
             \cup {[op |-> o, arg |-> a] : o \in {OpReconcileHostnames, OpDeleteHostnames},
                                          a \in ApiArgs}

NoError == [kind |-> "nil", where |-> "", host |-> ""]
Error(kind, where, host) == [kind |-> kind, where |-> where, host |-> host]

ZeroResult ==
    [WorkloadsScanned |-> 0, HostnamesFound |-> 0, HostnamesFiltered |-> 0,
     RecordsCreated |-> 0, RecordsExisted |-> 0, Errors |-> <<>>]

NoReturn == [isNil |-> TRUE, result |-> ZeroResult, deleted |-> 0, err |-> NoError]

\* what one call of an entry point has reported to package metrics
\* (the counters by their increments, the gauges WorkloadsScanned, HostnamesFound
\* and LastReconciliationTimestamp by their value, 0 when never set)
NoMetrics == [reconciliations |-> <<>>, created |-> 0, existed |-> 0, deleted |-> 0,
              workloadsScanned |-> 0, hostnamesFound |-> 0, lastSuccess |-> 0]

\* the frame of one call of an entry point: position, locals, and what the
\* call has logged and sent to the gateway so far
IdleCall ==
    [pc |-> "idle", op |-> "none", pass |-> 0, arg |-> <<>>,
     workloads |-> <<>>, wi |-> 0, hosts |-> <<>>, hi |-> 0,
     result |-> ZeroResult, deleted |-> 0, ret |-> NoReturn,
     listed |-> "no", calls |-> <<>>, trace |-> <<>>, visited |-> <<>>,
     metrics |-> NoMetrics]

VARIABLES
    cfg,          \* *config.Config, fixed after Load
    dockerMode,   \* docker.Client.mode
    zone,         \* the records held by the DNS server
    mu,           \* Reconciler.mu: NoHolder, or the goroutine holding it
    call,         \* per goroutine: its call into the Reconciler
    nextPass,     \* passes started so far
    gateway,      \* the pass the gateway served last; whether passes got mixed
    faults,       \* failures injected so far
    apiCalls,     \* direct calls made so far
    cancelled,    \* ctx.Done() is closed
    mainPc,       \* position of run()
    ready,        \* health.Server's readiness flag
    watcher,      \* Watch's frame: pc, filterArgs, pendingReconcile, debounceTimer, ret
    timer,        \* the time.Timers created by Watch
    errCh,        \* the subscription's error channel
    nEvents,      \* events received so far
    batches,      \* Idle -> PendingReconcile transitions so far
    batchEvents,  \* events received since the last such transition, up to the fire
    batchAge,     \* seconds since the last such transition
    watcherCalls, \* Reconcile calls made by timer callbacks so far
    watcherGw,    \* gateway calls issued by the event handlers themselves
    sawRemoval,   \* a remove / die / destroy event has been handled
    applied,      \* the last handler or helper applied on its own: input and output
    unlisted      \* an event was received after the workloads were last listed

confVars  == <<cfg, dockerMode>>
procVars  == <<mainPc, ready>>
watchVars == <<watcher, timer, errCh, nEvents, batches, batchEvents, batchAge,
               watcherCalls, watcherGw, sawRemoval>>
vars == <<cfg, dockerMode, zone, mu, call, nextPass, gateway, faults, apiCalls,
          cancelled, mainPc, ready, watcher, timer, errCh, nEvents, batches,
          batchEvents, batchAge, watcherCalls, watcherGw, sawRemoval, applied,
          unlisted>>

\* nothing applied on its own yet
NotApplied == [fn |-> "none"]
Applied(fn, in, out) == [fn |-> fn, in |-> in, out |-> out]

\* the process has not exited
Alive == mainPc # "exited"

\* ---------------------------------------------------- package technitium
GetRecords(z, hostname) == {r \in z : r.name = hostname}

\* (mutant) the address compared with the wrong value
HasARecordWrongField(z, hostname, ip) ==
    \E r \in GetRecords(z, hostname) : r.type = "A" /\ r.ip = hostname

\* (mutant) any A record of the hostname counts, whatever its address
HasARecordAnyAddress(z, hostname, ip) ==
    \E r \in GetRecords(z, hostname) : r.type = "A"

HasARecord(z, hostname, ip) ==
    \E r \in GetRecords(z, hostname) : r.type = "A" /\ r.ip = ip

\* (mutant) the record added without the TTL asked for
AddARecordNoTTL(z, hostname, ip, ttl) == z \cup {ARecord(hostname, ip, 0)}

AddARecord(z, hostname, ip, ttl) == z \cup {ARecord(hostname, ip, ttl)}

DeleteARecord(z, hostname, ip) ==
    {r \in z : ~(r.name = hostname /\ r.type = "A" /\ r.ip = ip)}

\* one request sent by doRequest, and whether it succeeded
GwCall(kind, hostname, ip, ttl, ok) ==
    [kind |-> kind, zone |-> cfg.TechnitiumZone, domain |-> hostname,
     ip |-> ip, ttl |-> ttl, ok |-> ok]

\* the request as the n-th hostname of a pass issues it
Nth(gc, n) == [kind |-> gc.kind, zone |-> gc.zone, domain |-> gc.domain, ip |-> gc.ip,
               ttl |-> gc.ttl, ok |-> gc.ok, n |-> n]

\* a platform or gateway request succeeds unless the context is cancelled or
\* a failure is injected
CallOutcomes ==
    {ok \in BOOLEAN : IF ok THEN ~cancelled ELSE cancelled \/ faults < MaxFaults}
Charge(ok) == faults' = IF ~ok /\ ~cancelled THEN faults + 1 ELSE faults

\* what the gateway has seen: the pass whose request it served last, and whether
\* it ever served a pass again after it had served a request of another pass
NoneServed == [last |-> 0, mixed |-> FALSE]
Served(g, c) ==
    [last |-> c.pass, mixed |-> g.mixed \/ (c.calls # <<>> /\ g.last # c.pass)]

\* --------------------------------------------------------- package metrics
RecordDNSRecordCreated(c) == [c EXCEPT !.metrics.created = @ + 1]
RecordDNSRecordExisted(c) == [c EXCEPT !.metrics.existed = @ + 1]
RecordDNSRecordDeleted(c) == [c EXCEPT !.metrics.deleted = @ + 1]
\* (mutant) the timestamp set whatever the status
RecordReconciliationAlwaysStamps(c, status) ==
    [c EXCEPT !.metrics.reconciliations  = Append(@, status),
              !.metrics.workloadsScanned = c.result.WorkloadsScanned,
              !.metrics.hostnamesFound   = c.result.HostnamesFound,
              !.metrics.lastSuccess      = c.pass]

\* RecordReconciliation(status, duration, result.WorkloadsScanned,
\* result.HostnamesFound); SetToCurrentTime() reads the clock, which is the
\* number of the pass here
RecordReconciliation(c, status) ==
    [c EXCEPT !.metrics.reconciliations  = Append(@, status),
              !.metrics.workloadsScanned = c.result.WorkloadsScanned,
              !.metrics.hostnamesFound   = c.result.HostnamesFound,
              !.metrics.lastSuccess      = IF status = "success" THEN c.pass ELSE @]

\* ----------------------------------------------------- package reconciler
\* the end of an entry point: only Reconcile records its outcome, "error" if
\* the result holds errors
reconciliationComplete(c) ==
    IF c.op = OpReconcile
    THEN RecordReconciliation(c, IF Len(c.result.Errors) > 0 THEN "error" ELSE "success")
    ELSE c

Logged(c, outcome) ==
    [c EXCEPT !.trace = Append(@, [wi |-> c.wi, host |-> c.hosts[c.hi],
                                   outcome |-> outcome])]
Issue(c, gc) == [c EXCEPT !.calls = Append(@, Nth(gc, Len(c.trace) + 1))]

\* head of Reconcile's loop over workloads
AtWorkload(c, i) ==
    IF i <= Len(c.workloads)
    THEN [c EXCEPT !.wi = i, !.hosts = <<>>, !.hi = 0, !.pc = "workload"]
    ELSE [c EXCEPT !.wi = 0, !.hosts = <<>>, !.hi = 0, !.pc = "finish"]

\* head of the loop over hostnames (processWorkload, ReconcileHostnames,
\* DeleteHostnames)
AtHost(c, i) ==
    IF i <= Len(c.hosts) THEN [c EXCEPT !.hi = i, !.pc = "host"]
    ELSE IF c.op = OpReconcile THEN AtWorkload(c, c.wi + 1)
    ELSE [c EXCEPT !.hi = 0, !.pc = "finish"]

\* (mutant) the first failing workload ends the pass
WorkloadFailedAbort(c, err) ==
    [c EXCEPT !.result.Errors = Append(@, err), !.wi = 0, !.hosts = <<>>, !.hi = 0,
              !.pc = "finish"]

\* Reconcile: processWorkload returned an error
WorkloadFailed(c, err) ==
    AtWorkload([c EXCEPT !.result.Errors = Append(@, err)], c.wi + 1)

\* (mutant) the first failing hostname ends the pass
HostnameFailedAbort(c, err) ==
    [c EXCEPT !.result.Errors = Append(@, err), !.hi = 0, !.pc = "finish"]

\* ReconcileHostnames: ensureRecord returned an error
HostnameFailed(c, err) ==
    AtHost([c EXCEPT !.result.Errors = Append(@, err)], c.hi + 1)

\* (mutant) a failed ensure asking the gateway again instead of giving up
EnsureFailedRetry(c, err) == [c EXCEPT !.pc = "has"]

\* ensureRecord returns an error to the entry point that called it
EnsureFailed(c, err) ==
    IF c.op = OpReconcile THEN WorkloadFailed(Logged(c, "error"), err)
    ELSE HostnameFailed(Logged(c, "error"), err)

\* (mutant) ensureRecord without the dry-run branch
ensureRecordLive(conf, c) ==
    LET hostname == c.hosts[c.hi]
    IN  IF ~MatchesFilters(conf, hostname)
        THEN AtHost(Logged(c, "filtered"), c.hi + 1)
        ELSE [c EXCEPT !.result.HostnamesFiltered = @ + 1, !.pc = "has"]

\* (mutant) ensureRecord counting the hostname before the filter is applied
ensureRecordCountsFirst(conf, c) ==
    LET hostname == c.hosts[c.hi]
        d        == [c EXCEPT !.result.HostnamesFiltered = @ + 1]
    IN  IF ~MatchesFilters(conf, hostname)
        THEN AtHost(Logged(d, "filtered"), c.hi + 1)
        ELSE IF conf.DryRun
             THEN AtHost(Logged([d EXCEPT !.result.RecordsCreated = @ + 1],
                                "dryrun"), c.hi + 1)
             ELSE [d EXCEPT !.pc = "has"]

\* (mutant) a hostname already handled in this pass is skipped
ensureRecordOncePerPass(conf, c) ==
    LET hostname == c.hosts[c.hi]
    IN  IF ~MatchesFilters(conf, hostname)
        THEN AtHost(Logged(c, "filtered"), c.hi + 1)
        ELSE IF \E k \in DOMAIN c.trace : c.trace[k].host = hostname
             THEN AtHost(Logged(c, "filtered"), c.hi + 1)
        ELSE LET d == [c EXCEPT !.result.HostnamesFiltered = @ + 1]
             IN  IF conf.DryRun
                 THEN AtHost(Logged([d EXCEPT !.result.RecordsCreated = @ + 1],
                                    "dryrun"), c.hi + 1)
                 ELSE [d EXCEPT !.pc = "has"]

\* (mutant) the dry-run branch reporting the record as already present
ensureRecordDryRunExisted(conf, c) ==
    LET hostname == c.hosts[c.hi]
    IN  IF ~MatchesFilters(conf, hostname)
        THEN AtHost(Logged(c, "filtered"), c.hi + 1)
        ELSE LET d == [c EXCEPT !.result.HostnamesFiltered = @ + 1]
             IN  IF conf.DryRun
                 THEN AtHost(Logged([d EXCEPT !.result.RecordsExisted = @ + 1],
                                    "dryrun"), c.hi + 1)
                 ELSE [d EXCEPT !.pc = "has"]

\* (mutant) ensureRecord asking the gateway whatever the filter says
ensureRecordUnfiltered(conf, c) ==
    LET hostname == c.hosts[c.hi]
    IN  IF ~MatchesFilters(conf, hostname)
        THEN [c EXCEPT !.pc = "has"]
        ELSE LET d == [c EXCEPT !.result.HostnamesFiltered = @ + 1]
             IN  IF conf.DryRun
                 THEN AtHost(Logged([d EXCEPT !.result.RecordsCreated = @ + 1],
                                    "dryrun"), c.hi + 1)
                 ELSE [d EXCEPT !.pc = "has"]

\* ensureRecord up to the call of EnsureARecord: filter, count, dry run
ensureRecord(conf, c) ==
    LET hostname == c.hosts[c.hi]
    IN  IF ~MatchesFilters(conf, hostname)
        THEN AtHost(Logged(c, "filtered"), c.hi + 1)
        ELSE LET d == [c EXCEPT !.result.HostnamesFiltered = @ + 1]
             IN  IF conf.DryRun
                 THEN AtHost(Logged([d EXCEPT !.result.RecordsCreated = @ + 1],
                                    "dryrun"), c.hi + 1)
                 ELSE [d EXCEPT !.pc = "has"]

\* (mutant) a record found in place is not counted
EnsuredExistedUncounted(c, created) ==
    IF created
    THEN AtHost(Logged(RecordDNSRecordCreated([c EXCEPT !.result.RecordsCreated = @ + 1]),
                       "created"), c.hi + 1)
    ELSE AtHost(Logged(RecordDNSRecordExisted(c), "existed"), c.hi + 1)

\* ensureRecord after EnsureARecord returned (created, nil)
Ensured(c, created) ==
    IF created
    THEN AtHost(Logged(RecordDNSRecordCreated([c EXCEPT !.result.RecordsCreated = @ + 1]),
                       "created"), c.hi + 1)
    ELSE AtHost(Logged(RecordDNSRecordExisted([c EXCEPT !.result.RecordsExisted = @ + 1]),
                       "existed"), c.hi + 1)

\* (mutant) DeleteHostnames' loop body without the filter
deleteFilterUnfiltered(conf, c) ==
    IF conf.DryRun
    THEN AtHost(Logged([c EXCEPT !.deleted = @ + 1], "dryrun"), c.hi + 1)
    ELSE [c EXCEPT !.pc = "has"]

\* DeleteHostnames' loop body up to the call of HasARecord
deleteFilter(conf, c) ==
    LET hostname == c.hosts[c.hi]
    IN  IF ~MatchesFilters(conf, hostname)
        THEN AtHost(Logged(c, "filtered"), c.hi + 1)
        ELSE IF conf.DryRun
             THEN AtHost(Logged([c EXCEPT !.deleted = @ + 1], "dryrun"), c.hi + 1)
             ELSE [c EXCEPT !.pc = "has"]

\* the body of an entry point, right after r.mu.Lock()
BodyStart(c) ==
    CASE c.op = OpReconcile -> [c EXCEPT !.pc = "list"]
      [] c.op = OpReconcileHostnames ->
            AtHost([c EXCEPT !.result.HostnamesFound = Len(c.arg), !.hosts = c.arg], 1)
      [] c.op = OpDeleteHostnames ->
            AtHost([c EXCEPT !.hosts = c.arg], 1)

\* (mutant) a failed listing treated as an empty one
ListFailedAsEmpty(c) == AtWorkload(c, 1)

\* Reconcile: ListWorkloads failed
ListFailed(c) ==
    [c EXCEPT !.pc = "returned",
              !.ret = [isNil |-> TRUE, result |-> ZeroResult, deleted |-> 0,
                       err |-> Error("listing", "", "")]]

\* (mutant) a Reconcile that found no workloads returns an error
ReturnedEmptyIsError(c) ==
    IF c.op = OpReconcile /\ c.workloads = <<>>
    THEN [c EXCEPT !.pc = "returned",
                   !.ret = [isNil |-> TRUE, result |-> ZeroResult, deleted |-> 0,
                            err |-> Error("listing", "", "")]]
    ELSE [c EXCEPT !.pc = "returned",
                   !.ret = [isNil |-> FALSE, result |-> c.result, deleted |-> c.deleted,
                            err |-> NoError]]

\* the return statement that ends a pass
Returned(c) ==
    [c EXCEPT !.pc = "returned",
              !.ret = [isNil |-> FALSE, result |-> c.result, deleted |-> c.deleted,
                       err |-> NoError]]

\* (mutant) Unlock written before the final return only, not deferred
deferUnlockOnSuccess(m, c) == IF c.ret.err = NoError THEN NoHolder ELSE m

\* defer r.mu.Unlock(): runs on every return of the entry point, c being the
\* caller's frame as it returns
deferUnlock(m, c) == NoHolder

\* (mutant) Lock() that does not wait
TryLockNoWait(m) == TRUE

\* r.mu.Lock() returns only when the mutex is free
TryLock(m) == m = NoHolder

\* a goroutine calls an entry point
Enter(t, op, arg) ==
    call' = [call EXCEPT ![t] = [IdleCall EXCEPT !.pc = "lock", !.op = op, !.arg = arg]]

Lock(t) ==
    /\ Alive
    /\ call[t].pc = "lock"
    /\ TryLock(mu)
    /\ mu' = t
    /\ nextPass' = nextPass + 1
    /\ call' = [call EXCEPT ![t] = BodyStart([call[t] EXCEPT !.pass = nextPass + 1])]
    /\ UNCHANGED <<applied, unlisted, confVars, procVars, watchVars, zone, gateway, faults, apiCalls, cancelled>>

\* Reconcile: r.docker.ListWorkloads(ctx) and the return on its failure
ListStep(t) ==
    /\ Alive
    /\ call[t].pc = "list"
    /\ \E ok \in CallOutcomes :
         /\ Charge(ok)
         /\ IF ok
            THEN /\ \E l \in Listings :
                      call' = [call EXCEPT ![t] =
                          AtWorkload([call[t] EXCEPT
                                        !.listed = "ok",
                                        !.workloads = ListWorkloads(dockerMode, l),
                                        !.result.WorkloadsScanned = Len(l)], 1)]
                 /\ mu' = mu
                 /\ unlisted' = FALSE
            ELSE /\ call' = [call EXCEPT ![t] = ListFailed([call[t] EXCEPT !.listed = "failed"])]
                 /\ mu' = deferUnlock(mu, call'[t])
                 /\ unlisted' = unlisted
    /\ UNCHANGED <<applied, confVars, procVars, watchVars, zone, nextPass, gateway, apiCalls, cancelled>>

\* (mutant) a workload without hostnames is reported as a failed workload
ProcessWorkloadNoHostsIsError(t) ==
    /\ Alive
    /\ call[t].pc = "workload"
    /\ \E hosts \in ExtractHosts(call[t].workloads[call[t].wi].Labels) :
         LET c == [call[t] EXCEPT !.visited = Append(@, [wi |-> call[t].wi, hosts |-> hosts])]
         IN  call' = [call EXCEPT ![t] =
                 IF Len(hosts) = 0
                 THEN WorkloadFailed(c, Error("labels", c.op, ""))
                 ELSE AtHost([c EXCEPT !.result.HostnamesFound = @ + Len(hosts),
                                       !.hosts = hosts], 1)]
    /\ UNCHANGED <<applied, unlisted, confVars, procVars, watchVars, zone, mu, nextPass, gateway, faults,
                   apiCalls, cancelled>>

\* processWorkload up to its loop over hostnames
ProcessWorkload(t) ==
    /\ Alive
    /\ call[t].pc = "workload"
    /\ \E hosts \in ExtractHosts(call[t].workloads[call[t].wi].Labels) :
         LET c == [call[t] EXCEPT !.visited = Append(@, [wi |-> call[t].wi, hosts |-> hosts])]
         IN  call' = [call EXCEPT ![t] =
                 IF Len(hosts) = 0
                 THEN AtWorkload(c, c.wi + 1)
                 ELSE AtHost([c EXCEPT !.result.HostnamesFound = @ + Len(hosts),
                                       !.hosts = hosts], 1)]
    /\ UNCHANGED <<applied, unlisted, confVars, procVars, watchVars, zone, mu, nextPass, gateway, faults,
                   apiCalls, cancelled>>

EnsureRecord(t) ==
    /\ Alive
    /\ call[t].pc = "host"
    /\ call[t].op \in {OpReconcile, OpReconcileHostnames}
    /\ call' = [call EXCEPT ![t] = ensureRecord(cfg, call[t])]
    /\ UNCHANGED <<applied, unlisted, confVars, procVars, watchVars, zone, mu, nextPass, gateway, faults,
                   apiCalls, cancelled>>

DeleteFilter(t) ==
    /\ Alive
    /\ call[t].pc = "host"
    /\ call[t].op = OpDeleteHostnames
    /\ call' = [call EXCEPT ![t] = deleteFilter(cfg, call[t])]
    /\ UNCHANGED <<applied, unlisted, confVars, procVars, watchVars, zone, mu, nextPass, gateway, faults,
                   apiCalls, cancelled>>

\* HasARecord, called by EnsureARecord and by DeleteHostnames
HasStep(t) ==
    /\ Alive
    /\ call[t].pc = "has"
    /\ \E ok \in CallOutcomes :
         LET hostname == call[t].hosts[call[t].hi]
             c        == Issue(call[t], GwCall("get", hostname, "", 0, ok))
             exists   == HasARecord(zone, hostname, cfg.TargetIP)
         IN  /\ Charge(ok)
             /\ call' = [call EXCEPT ![t] =
                  IF c.op = OpDeleteHostnames
                  THEN IF ~ok THEN AtHost(Logged(c, "error"), c.hi + 1)
                       ELSE IF ~exists THEN AtHost(Logged(c, "absent"), c.hi + 1)
                       ELSE [c EXCEPT !.pc = "delete"]
                  ELSE IF ~ok THEN EnsureFailed(c, Error("get", c.op, hostname))
                       ELSE IF exists THEN Ensured(c, FALSE)
                       ELSE [c EXCEPT !.pc = "add"]]
    /\ gateway' = Served(gateway, call[t])
    /\ UNCHANGED <<applied, unlisted, confVars, procVars, watchVars, zone, mu, nextPass, apiCalls, cancelled>>

\* EnsureARecord: AddARecord after HasARecord found nothing
AddStep(t) ==
    /\ Alive
    /\ call[t].pc = "add"
    /\ \E ok \in CallOutcomes :
         LET hostname == call[t].hosts[call[t].hi]
             c        == Issue(call[t], GwCall("add", hostname, cfg.TargetIP, cfg.TTL, ok))
         IN  /\ Charge(ok)
             /\ zone' = IF ok THEN AddARecord(zone, hostname, cfg.TargetIP, cfg.TTL) ELSE zone
             /\ call' = [call EXCEPT ![t] =
                  IF ok THEN Ensured(c, TRUE)
                  ELSE EnsureFailed(c, Error("add", c.op, hostname))]
    /\ gateway' = Served(gateway, call[t])
    /\ UNCHANGED <<applied, unlisted, confVars, procVars, watchVars, mu, nextPass, apiCalls, cancelled>>

\* DeleteHostnames: DeleteARecord after HasARecord found the record
DeleteStep(t) ==
    /\ Alive
    /\ call[t].pc = "delete"
    /\ \E ok \in CallOutcomes :
         LET hostname == call[t].hosts[call[t].hi]
             c        == Issue(call[t], GwCall("delete", hostname, cfg.TargetIP, 0, ok))
         IN  /\ Charge(ok)
             /\ zone' = IF ok THEN DeleteARecord(zone, hostname, cfg.TargetIP) ELSE zone
             /\ call' = [call EXCEPT ![t] =
                  IF ok THEN AtHost(Logged(RecordDNSRecordDeleted([c EXCEPT !.deleted = @ + 1]),
                                           "deleted"), c.hi + 1)
                  ELSE AtHost(Logged(c, "error"), c.hi + 1)]
    /\ gateway' = Served(gateway, call[t])
    /\ UNCHANGED <<applied, unlisted, confVars, procVars, watchVars, mu, nextPass, apiCalls, cancelled>>

\* the end of a pass: return, and the deferred r.mu.Unlock()
Finish(t) ==
    /\ Alive
    /\ call[t].pc = "finish"
    /\ call' = [call EXCEPT ![t] = Returned(reconciliationComplete(call[t]))]
    /\ mu' = deferUnlock(mu, call'[t])
    /\ UNCHANGED <<applied, unlisted, confVars, procVars, watchVars, zone, nextPass, gateway, faults,
                   apiCalls, cancelled>>

\* a direct caller of the engine (as the package's tests are)
ApiCall(t) ==
    /\ Alive
    /\ call[t].pc = "idle"
    /\ apiCalls < MaxApiCalls
    /\ apiCalls' = apiCalls + 1
    /\ \E in \in ApiInputs : Enter(t, in.op, in.arg)
    /\ UNCHANGED <<applied, unlisted, confVars, procVars, watchVars, zone, mu, nextPass, gateway, faults, cancelled>>

ApiReturn(t) ==
    /\ Alive
    /\ call[t].pc = "returned"
    /\ call' = [call EXCEPT ![t] = IdleCall]
    /\ UNCHANGED <<applied, unlisted, confVars, procVars, watchVars, zone, mu, nextPass, gateway, faults,
                   apiCalls, cancelled>>

\* -------------------------------------------------------- package watcher
\* (mutant) container events whatever the mode
buildEventFiltersContainerOnly(mode) ==
    [type |-> {"container"}, event |-> {"start", "die", "destroy"}]

\* buildEventFilters: the "type" and "event" filter arguments
buildEventFilters(mode) ==
    IF mode = ModeSwarm
    THEN [type |-> {"service"},   event |-> {"create", "update", "remove"}]
    ELSE [type |-> {"container"}, event |-> {"start", "die", "destroy"}]

\* filters.NewArgs(): before Watch has subscribed
NoFilters == [type |-> {}, event |-> {}]

\* the events the subscription delivers under these filters
Delivered(f) == {[Type |-> ty, Action |-> a] : ty \in f.type, a \in f.event}

\* (mutant) the record of a created service is added right from the handler
handleServiceEventEnsure(e) ==
    CASE e.Action \in {"create", "update"} ->
            <<GwCall("add", HostTest, cfg.TargetIP, cfg.TTL, TRUE)>>
      [] e.Action = "remove"               -> <<>>
      [] OTHER                             -> <<>>

\* the event handlers log and count; they send nothing to the gateway.
\* Each yields the gateway requests it issues.
handleServiceEvent(e) ==
    CASE e.Action \in {"create", "update"} -> <<>>
      [] e.Action = "remove"               -> <<>>
      [] OTHER                             -> <<>>

\* (mutant) cleanup of the record of a stopped container
handleContainerEventCleanup(e) ==
    CASE e.Action = "start"               -> <<>>
      [] e.Action \in {"die", "destroy"}  -> <<GwCall("delete", HostWeb, cfg.TargetIP, 0, TRUE)>>
      [] OTHER                            -> <<>>

handleContainerEvent(e) ==
    CASE e.Action = "start"               -> <<>>
      [] e.Action \in {"die", "destroy"}  -> <<>>
      [] OTHER                            -> <<>>

handleEvent(e) ==
    CASE e.Type = "service"   -> handleServiceEvent(e)
      [] e.Type = "container" -> handleContainerEvent(e)
      [] OTHER                -> <<>>

\* event.Actor.Attributes[key]: the zero value when the key is missing
Attribute(attrs, key) == IF key \in DOMAIN attrs THEN attrs[key] ELSE <<>>

\* event.Actor.ID[:12]: a slice expression beyond the string's length panics
ActorIDPrefix(id) ==
    IF Len(id) < ShortIDLen
    THEN [panicked |-> TRUE,  name |-> <<>>]
    ELSE [panicked |-> FALSE, name |-> SubSeq(id, 1, ShortIDLen)]

\* handleServiceEvent: the name the handler logs
serviceName(e) ==
    IF Attribute(e.Actor.Attributes, "name") = <<>>
    THEN ActorIDPrefix(e.Actor.ID)
    ELSE [panicked |-> FALSE, name |-> Attribute(e.Actor.Attributes, "name")]

\* handleContainerEvent: the name the handler logs
containerName(e) ==
    IF Attribute(e.Actor.Attributes, "name") = <<>>
    THEN ActorIDPrefix(e.Actor.ID)
    ELSE [panicked |-> FALSE, name |-> Attribute(e.Actor.Attributes, "name")]

\* handleEvent's switch on the event type: whether the handler panicked, and
\* the workload name it logged
handleEventName(e) ==
    CASE e.Type = "service"   -> serviceName(e)
      [] e.Type = "container" -> containerName(e)
      [] OTHER                -> [panicked |-> FALSE, name |-> <<>>]

\* the effect of a sequence of gateway requests on the zone
RECURSIVE Apply(_, _)
Apply(z, gcs) ==
    IF gcs = <<>> THEN z
    ELSE LET gc == Head(gcs)
         IN  Apply(CASE gc.kind = "add" /\ gc.ok    -> AddARecord(z, gc.domain, gc.ip, gc.ttl)
                     [] gc.kind = "delete" /\ gc.ok -> DeleteARecord(z, gc.domain, gc.ip)
                     [] OTHER                       -> z,
                   Tail(gcs))

UnusedTimer == [state |-> "unused", remaining |-> 0]
ArmedTimer  == [state |-> "armed", remaining |-> DebounceInterval]
Armed(tm)   == {i \in TimerIds : tm[i].state = "armed"}
FreshTimer(tm) == 1 + Cardinality({i \in TimerIds : tm[i].state # "unused"})

\* (mutant) a timer for every event
DebounceEveryEvent(w, tm) ==
    [w  |-> [w EXCEPT !.pendingReconcile = TRUE, !.debounceTimer = FreshTimer(tm)],
     tm |-> [tm EXCEPT ![FreshTimer(tm)] = ArmedTimer]]

\* (mutant) a sliding window: a further event resets the armed timer
DebounceSliding(w, tm) ==
    IF ~w.pendingReconcile
    THEN [w  |-> [w EXCEPT !.pendingReconcile = TRUE, !.debounceTimer = FreshTimer(tm)],
          tm |-> [tm EXCEPT ![FreshTimer(tm)] = ArmedTimer]]
    ELSE [w |-> w,
          tm |-> IF tm[w.debounceTimer].state = "armed"
                 THEN [tm EXCEPT ![w.debounceTimer] = ArmedTimer] ELSE tm]

\* (mutant) a timer whenever none is armed, whatever pendingReconcile says
DebounceUnlessArmed(w, tm) ==
    IF Armed(tm) = {}
    THEN [w  |-> [w EXCEPT !.pendingReconcile = TRUE, !.debounceTimer = FreshTimer(tm)],
          tm |-> [tm EXCEPT ![FreshTimer(tm)] = ArmedTimer]]
    ELSE [w |-> w, tm |-> tm]

\* Watch's debounce block: arm a timer unless a reconcile is pending
Debounce(w, tm) ==
    IF ~w.pendingReconcile
    THEN [w  |-> [w EXCEPT !.pendingReconcile = TRUE, !.debounceTimer = FreshTimer(tm)],
          tm |-> [tm EXCEPT ![FreshTimer(tm)] = ArmedTimer]]
    ELSE [w |-> w, tm |-> tm]

\* Watch: case event := <-eventsCh
WatcherRecvEvent ==
    /\ Alive
    /\ watcher.pc = "loop"
    /\ errCh = "empty"
    /\ nEvents < MaxEvents
    /\ \E e \in Delivered(watcher.filterArgs) :
         /\ watcherGw' = watcherGw \o handleEvent(e)
         /\ zone' = Apply(zone, handleEvent(e))
         /\ sawRemoval' = (sawRemoval \/ e.Action \in {"remove", "die", "destroy"})
    /\ LET d == Debounce(watcher, timer)
       IN  watcher' = d.w /\ timer' = d.tm
    /\ nEvents' = nEvents + 1
    /\ batches' = IF watcher.pendingReconcile THEN batches ELSE batches + 1
    /\ batchEvents' = IF ~watcher.pendingReconcile THEN 1
                      ELSE IF Armed(timer) # {} THEN batchEvents + 1
                      ELSE batchEvents
    /\ batchAge' = IF watcher.pendingReconcile THEN batchAge ELSE 0
    /\ unlisted' = TRUE
    /\ UNCHANGED <<applied, confVars, procVars, mu, call, nextPass, gateway, faults, apiCalls,
                   cancelled, errCh, watcherCalls>>

\* one second passes; an armed timer fires no later than its deadline
Tick ==
    /\ Alive
    /\ Armed(timer) # {}
    /\ \A i \in Armed(timer) : timer[i].remaining > 0
    /\ timer' = [i \in TimerIds |->
                   IF timer[i].state = "armed"
                   THEN [timer[i] EXCEPT !.remaining = @ - 1] ELSE timer[i]]
    /\ batchAge' = batchAge + 1
    /\ UNCHANGED <<applied, unlisted, confVars, procVars, zone, mu, call, nextPass, gateway, faults, apiCalls,
                   cancelled, watcher, errCh, nEvents, batches, batchEvents,
                   watcherCalls, watcherGw, sawRemoval>>

\* the timer expires: its function starts in its own goroutine and calls Reconcile
TimerFire(i) ==
    /\ Alive
    /\ timer[i].state = "armed"
    /\ timer[i].remaining = 0
    /\ timer' = [timer EXCEPT ![i].state = "fired"]
    /\ Enter(TimerCaller(i), OpReconcile, <<>>)
    /\ watcherCalls' = watcherCalls + 1
    /\ UNCHANGED <<applied, unlisted, confVars, procVars, zone, mu, nextPass, gateway, faults, apiCalls,
                   cancelled, watcher, errCh, nEvents, batches, batchEvents, batchAge,
                   watcherGw, sawRemoval>>

\* (mutant) the timer function clearing the flag only after a successful Reconcile
debounceFiredOnSuccess(w, ret) ==
    IF ret.isNil THEN w ELSE [w EXCEPT !.pendingReconcile = FALSE]

\* the end of the timer function: whatever Reconcile returned is logged and
\* pendingReconcile is cleared
debounceFired(w, ret) == [w EXCEPT !.pendingReconcile = FALSE]

\* the timer function after Reconcile returned: log, pendingReconcile = false
TimerDone(i) ==
    /\ Alive
    /\ timer[i].state = "fired"
    /\ call[TimerCaller(i)].pc = "returned"
    /\ call' = [call EXCEPT ![TimerCaller(i)] = IdleCall]
    /\ timer' = [timer EXCEPT ![i].state = "done"]
    /\ watcher' = debounceFired(watcher, call[TimerCaller(i)].ret)
    /\ UNCHANGED <<applied, unlisted, confVars, procVars, zone, mu, nextPass, gateway, faults, apiCalls,
                   cancelled, errCh, nEvents, batches, batchEvents, batchAge,
                   watcherCalls, watcherGw, sawRemoval>>

\* (mutant) the ctx.Done() case returning without debounceTimer.Stop()
StopNothing(tm, i) == tm

\* debounceTimer.Stop(): an armed timer never fires, a fired one is unaffected
Stop(tm, i) ==
    IF i # 0 /\ tm[i].state = "armed" THEN [tm EXCEPT ![i].state = "stopped"] ELSE tm

\* Watch: case <-ctx.Done()
WatcherCtxDone ==
    /\ Alive
    /\ watcher.pc = "loop"
    /\ cancelled
    /\ timer' = Stop(timer, watcher.debounceTimer)
    /\ watcher' = [watcher EXCEPT !.pc = "returned", !.ret = "canceled"]
    /\ UNCHANGED <<applied, unlisted, confVars, procVars, zone, mu, call, nextPass, gateway, faults, apiCalls,
                   cancelled, errCh, nEvents, batches, batchEvents, batchAge,
                   watcherCalls, watcherGw, sawRemoval>>

\* (mutant) Watch subscribing again after a stream error instead of returning
WatcherStreamErrorRetry ==
    /\ Alive
    /\ watcher.pc = "loop"
    /\ errCh \in {"stream", "canceled"}
    /\ errCh' = "empty"
    /\ UNCHANGED <<applied, unlisted, confVars, procVars, zone, mu, call, nextPass, gateway, faults, apiCalls,
                   cancelled, watcher, timer, nEvents, batches, batchEvents, batchAge,
                   watcherCalls, watcherGw, sawRemoval>>

\* Watch: case err := <-errCh, with a non-nil error
WatcherStreamError ==
    /\ Alive
    /\ watcher.pc = "loop"
    /\ errCh \in {"stream", "canceled"}
    /\ watcher' = [watcher EXCEPT !.pc = "returned",
                      !.ret = IF errCh = "stream" THEN "wrapped stream" ELSE "wrapped canceled"]
    /\ errCh' = "closed"
    /\ UNCHANGED <<applied, unlisted, confVars, procVars, zone, mu, call, nextPass, gateway, faults, apiCalls,
                   cancelled, timer, nEvents, batches, batchEvents, batchAge,
                   watcherCalls, watcherGw, sawRemoval>>

\* the event stream breaks
StreamBreaks ==
    /\ Alive
    /\ watcher.pc = "loop"
    /\ errCh = "empty"
    /\ ~cancelled
    /\ faults < MaxFaults
    /\ faults' = faults + 1
    /\ errCh' = "stream"
    /\ UNCHANGED <<applied, unlisted, confVars, procVars, zone, mu, call, nextPass, gateway, apiCalls,
                   cancelled, watcher, timer, nEvents, batches, batchEvents, batchAge,
                   watcherCalls, watcherGw, sawRemoval>>

\* the subscription sees the cancelled context and reports ctx.Err()
StreamCancelled ==
    /\ Alive
    /\ watcher.pc # "off"
    /\ errCh = "empty"
    /\ cancelled
    /\ errCh' = "canceled"
    /\ UNCHANGED <<applied, unlisted, confVars, procVars, zone, mu, call, nextPass, gateway, faults, apiCalls,
                   cancelled, watcher, timer, nEvents, batches, batchEvents, batchAge,
                   watcherCalls, watcherGw, sawRemoval>>

\* ---------------------------------------------------------- package health
StatusOK                 == 200
StatusServiceUnavailable == 503

StatusHealthy   == "healthy"
StatusUnhealthy == "unhealthy"
StatusDegraded  == "degraded"

\* the checkers run() registers, and what a probe may find: for each registered
\* checker whether it returned nil
CheckerNames == {"docker", "technitium"}
Checks == UNION {[S -> BOOLEAN] : S \in SUBSET CheckerNames}
Components(checks) ==
    [n \in DOMAIN checks |-> IF checks[n] THEN StatusHealthy ELSE StatusUnhealthy]

\* (mutant) /health reporting a failed checker as an unhealthy service
handleHealthFailing(checks) ==
    LET status == IF \E n \in DOMAIN checks : ~checks[n]
                  THEN StatusUnhealthy ELSE StatusHealthy
    IN  [code |-> IF status = StatusUnhealthy THEN StatusServiceUnavailable ELSE StatusOK,
         status |-> status, components |-> Components(checks)]

\* GET /health: a failed checker degrades the status; the code is 503 only for
\* the status unhealthy
handleHealth(checks) ==
    LET status == IF \E n \in DOMAIN checks : ~checks[n]
                  THEN StatusDegraded ELSE StatusHealthy
    IN  [code |-> IF status = StatusUnhealthy THEN StatusServiceUnavailable ELSE StatusOK,
         status |-> status, components |-> Components(checks)]

\* (mutant) /ready answering from the component checks alone
handleReadyChecksOnly(rdy, allHealthy) ==
    IF allHealthy THEN StatusOK ELSE StatusServiceUnavailable

\* GET /ready: 503 while the server is not ready, otherwise 200 or 503 by the
\* component checks
handleReady(rdy, allHealthy) ==
    IF ~rdy THEN StatusServiceUnavailable
    ELSE IF allHealthy THEN StatusOK ELSE StatusServiceUnavailable

\* ------------------------------------------------------------ package main
\* run(): startup reconciliation if enabled
MainStartup ==
    /\ mainPc = "init"
    /\ IF cfg.ReconcileOnStartup
       THEN Enter(MainCaller, OpReconcile, <<>>) /\ mainPc' = "startup"
       ELSE call' = call /\ mainPc' = "setready"
    /\ UNCHANGED <<applied, unlisted, confVars, ready, watchVars, zone, mu, nextPass, gateway, faults,
                   apiCalls, cancelled>>

MainStartupDone ==
    /\ mainPc = "startup"
    /\ call[MainCaller].pc = "returned"
    /\ call' = [call EXCEPT ![MainCaller] = IdleCall]
    /\ mainPc' = "setready"
    /\ UNCHANGED <<applied, unlisted, confVars, ready, watchVars, zone, mu, nextPass, gateway, faults,
                   apiCalls, cancelled>>

MainSetReady ==
    /\ mainPc = "setready"
    /\ ready' = TRUE
    /\ mainPc' = "spawn"
    /\ UNCHANGED <<applied, unlisted, confVars, watchVars, zone, mu, call, nextPass, gateway, faults,
                   apiCalls, cancelled>>

MainStartWatcher ==
    /\ mainPc = "spawn"
    /\ watcher' = [watcher EXCEPT !.pc = "loop",
                                  !.filterArgs = buildEventFilters(dockerMode)]
    /\ mainPc' = "running"
    /\ UNCHANGED <<applied, unlisted, confVars, ready, zone, mu, call, nextPass, gateway, faults, apiCalls,
                   cancelled, timer, errCh, nEvents, batches, batchEvents, batchAge,
                   watcherCalls, watcherGw, sawRemoval>>

\* the goroutine around Watch forwards every error but context.Canceled
WatcherFatal == watcher.pc = "returned" /\ watcher.ret \notin {"nil", "canceled"}

\* run(): case sig := <-sigCh (or the health server failed); cancel()
MainShutdown ==
    /\ mainPc = "running"
    /\ cancelled' = TRUE
    /\ mainPc' = "stopping"
    /\ UNCHANGED <<applied, unlisted, confVars, ready, watchVars, zone, mu, call, nextPass, gateway, faults,
                   apiCalls>>

\* run(): case err := <-watcherErrCh; the goroutine around Watch has sent the
\* error or closed the channel; cancel()
MainWatcherError ==
    /\ mainPc = "running"
    /\ watcher.pc = "returned"
    /\ cancelled' = TRUE
    /\ mainPc' = "stopping"
    /\ UNCHANGED <<applied, unlisted, confVars, ready, watchVars, zone, mu, call, nextPass, gateway, faults,
                   apiCalls>>

\* run() returns and the process ends
MainExit ==
    /\ mainPc = "stopping"
    /\ mainPc' = "exited"
    /\ UNCHANGED <<applied, unlisted, confVars, ready, watchVars, zone, mu, call, nextPass, gateway, faults,
                   apiCalls, cancelled>>

\* ------------------------------------------------------------------ system
Init ==
    /\ \E d \in Deployments : cfg = d.cfg /\ dockerMode = d.mode
    /\ zone = InitialZone
    /\ mu = NoHolder
    /\ call = [t \in Callers |-> IdleCall]
    /\ nextPass = 0
    /\ gateway = NoneServed
    /\ faults = 0
    /\ apiCalls = 0
    /\ cancelled = FALSE
    /\ mainPc = "init"
    /\ ready = FALSE
    /\ watcher = [pc |-> "off", filterArgs |-> NoFilters, pendingReconcile |-> FALSE,
                  debounceTimer |-> 0, ret |-> "nil"]
    /\ timer = [i \in TimerIds |-> UnusedTimer]
    /\ errCh = "empty"
    /\ nEvents = 0
    /\ batches = 0
    /\ batchEvents = 0
    /\ batchAge = 0
    /\ watcherCalls = 0
    /\ watcherGw = <<>>
    /\ sawRemoval = FALSE
    /\ applied = NotApplied
    /\ unlisted = FALSE

\* the program as run() builds it: the callers of the engine are the startup
\* call and the timer functions, and both call Reconcile only
Next ==
    \/ \E t \in Callers : Lock(t)
    \/ \E t \in Callers : ListStep(t)
    \/ \E t \in Callers : ProcessWorkload(t)
    \/ \E t \in Callers : EnsureRecord(t)
    \/ \E t \in Callers : HasStep(t)
    \/ \E t \in Callers : AddStep(t)
    \/ \E t \in Callers : Finish(t)
    \/ WatcherRecvEvent
    \/ Tick
    \/ \E i \in TimerIds : TimerFire(i)
    \/ \E i \in TimerIds : TimerDone(i)
    \/ WatcherCtxDone
    \/ WatcherStreamError
    \/ StreamBreaks
    \/ StreamCancelled
    \/ MainStartup
    \/ MainStartupDone
    \/ MainSetReady
    \/ MainStartWatcher
    \/ MainShutdown
    \/ MainWatcherError
    \/ MainExit

Spec == Init /\ [][Next]_vars

\* The program with its goroutines scheduled: a goroutine inside the engine
\* takes its next step (every platform and gateway request returns), and a
\* timer function whose Reconcile has returned runs to its end; run() takes a
\* ready watcherErrCh case of its select and, once stopping, returns (the
\* shutdown of the health server is bounded by its timeout).
EngineStep ==
    \E t \in Callers :
        \/ Lock(t) \/ ListStep(t) \/ ProcessWorkload(t) \/ EnsureRecord(t)
        \/ HasStep(t) \/ AddStep(t) \/ Finish(t)
TimerReturn == \E i \in TimerIds : TimerDone(i)

SpecLive ==
    /\ Spec
    /\ WF_vars(EngineStep) /\ WF_vars(TimerReturn)
    /\ WF_vars(MainWatcherError) /\ WF_vars(MainExit)

\* ---------------------------------------------- handlers on their own
\* what a step of the health server or of a helper leaves alone
unitFrame == <<confVars, watchVars, zone, mu, call, nextPass, gateway, faults,
               apiCalls, cancelled, mainPc, unlisted>>

\* Server.SetReady(b)
ServerSetReady ==
    /\ \E b \in BOOLEAN : ready' = b
    /\ UNCHANGED <<applied, unlisted, unitFrame>>

\* a GET /health request is served
ProbeHealth ==
    /\ \E checks \in Checks :
         applied' = Applied("handleHealth", [checks |-> checks, ready |-> ready],
                            handleHealth(checks))
    /\ UNCHANGED <<ready, unitFrame>>

\* a GET /ready request is served
ProbeReady ==
    /\ \E checks \in Checks :
         applied' = Applied("handleReady", [checks |-> checks, ready |-> ready],
                            [code |-> handleReady(ready, \A n \in DOMAIN checks : checks[n])])
    /\ UNCHANGED <<ready, unitFrame>>

\* the optional patterns a configuration may hold, by the hostnames they match
Patterns == {NilPattern} \cup {Pattern(m) : m \in SUBSET Hosts}

\* cfg.MatchesFilters(hostname) on a configuration with the given patterns
ApplyMatchesFilters ==
    /\ \E inc \in Patterns, exc \in Patterns, hostname \in Hosts :
         applied' = Applied("MatchesFilters",
                            [include |-> inc, exclude |-> exc, hostname |-> hostname],
                            MatchesFilters(Config(FALSE, FALSE, inc, exc), hostname))
    /\ UNCHANGED <<ready, unitFrame>>

\* the label maps handed to the parser: those of the platform and nil / empty
LabelMaps == {NoLabels} \cup {w.Labels : w \in {PlatApp, PlatDuo, PlatTest, PlatBare}}

\* parser.ExtractHosts(labels), called twice on the same label map
ApplyExtractHosts ==
    /\ \E labels \in LabelMaps :
         \E first \in ExtractHosts(labels), second \in ExtractHosts(labels) :
            applied' = Applied("ExtractHosts", [labels |-> labels],
                               [first |-> first, second |-> second])
    /\ UNCHANGED <<ready, unitFrame>>

\* actor IDs, by length: empty, one short of the prefix, the prefix, longer
ActorIDChars == <<"a", "b", "c", "d", "e", "f", "1", "2", "3", "4", "5", "6",
                  "7", "8", "9">>
ActorIDs == {SubSeq(ActorIDChars, 1, n) :
                n \in {0, ShortIDLen - 1, ShortIDLen, Len(ActorIDChars)}}

\* the attribute maps of an actor: no name, an empty name, a name
ActorAttributes == { [k \in {} |-> <<>>],
                     [name |-> <<>>],
                     [name |-> <<"w", "e", "b">>] }

\* events.Message values: those of both subscriptions and one of another type
Messages ==
    {[Type |-> ty, Action |-> a, Actor |-> [ID |-> id, Attributes |-> at]] :
        ty \in {"service"}, a \in {"create", "update", "remove"},
        id \in ActorIDs, at \in ActorAttributes}
    \cup
    {[Type |-> ty, Action |-> a, Actor |-> [ID |-> id, Attributes |-> at]] :
        ty \in {"container"}, a \in {"start", "die", "destroy"},
        id \in ActorIDs, at \in ActorAttributes}
    \cup
    {[Type |-> ty, Action |-> a, Actor |-> [ID |-> id, Attributes |-> at]] :
        ty \in {"network"}, a \in {"create"},
        id \in ActorIDs, at \in ActorAttributes}

\* w.handleEvent(ctx, event) on one message
ApplyHandleEvent ==
    /\ \E event \in Messages :
         applied' = Applied("handleEvent", event,
                            [panicked |-> handleEventName(event).panicked,
                             name     |-> handleEventName(event).name,
                             requests |-> IF handleEventName(event).panicked
                                          THEN <<>> ELSE handleEvent(event)])
    /\ UNCHANGED <<ready, unitFrame>>

\* results a Reconcile may hold when it reports: up to MaxScanned workloads,
\* at most one error per workload, each passing hostname created, present or
\* failed
MaxScanned == 2
ReportedResults ==
    {[WorkloadsScanned |-> ws, HostnamesFound |-> k + x + e + f,
      HostnamesFiltered |-> k + x + e, RecordsCreated |-> k, RecordsExisted |-> x,
      Errors |-> [i \in 1..e |-> Error("workload", "w", HostApp)]] :
        ws \in 0..MaxScanned, e \in 0..MaxScanned, k \in 0..2, x \in 0..1, f \in 0..1}

\* what the registry may hold when a pass reports: nothing yet, or the
\* report of an earlier successful pass
ReportedBefore ==
    {NoMetrics,
     [NoMetrics EXCEPT !.reconciliations = <<"success">>, !.workloadsScanned = 2,
                       !.hostnamesFound = 3, !.lastSuccess = 1]}

\* the end of Reconcile (status, RecordReconciliation) on a result, with the
\* registry as an earlier pass left it
ApplyReconciliationComplete ==
    /\ \E res \in ReportedResults, before \in ReportedBefore :
         /\ Len(res.Errors) <= res.WorkloadsScanned
         /\ res.HostnamesFound > 0 => res.WorkloadsScanned > 0
         /\ LET c == [IdleCall EXCEPT !.op = OpReconcile, !.pc = "finish", !.pass = 2,
                                      !.listed = "ok", !.result = res,
                                      !.metrics = before]
            IN  applied' = Applied("reconciliationComplete",
                                   [result |-> res, before |-> before, now |-> c.pass],
                                   reconciliationComplete(c).metrics)
    /\ UNCHANGED <<ready, unitFrame>>

NextUnits ==
    \/ ServerSetReady
    \/ ProbeHealth
    \/ ProbeReady
    \/ ApplyMatchesFilters
    \/ ApplyExtractHosts
    \/ ApplyHandleEvent
    \/ ApplyReconciliationComplete

SpecUnits == Init /\ [][NextUnits]_vars

\* the owner of the context passed to the entry points cancels it
CtxCancel ==
    /\ Alive
    /\ ~cancelled
    /\ cancelled' = TRUE
    /\ UNCHANGED <<applied, unlisted, confVars, procVars, watchVars, zone, mu, call, nextPass, gateway,
                   faults, apiCalls>>

\* A caller takes the result of its finished call before the next pass starts:
\* taking it is local to the caller and leaves everything the others see
\* unchanged, so each result is observed in the state it was returned in.
ResultPending == \E u \in ApiCallers : call[u].pc = "returned"

\* the Reconciler alone, called from concurrent goroutines
NextEngine ==
    \/ ~ResultPending /\ \E t \in Callers : Lock(t)
    \/ \E t \in Callers : ListStep(t)
    \/ \E t \in Callers : ProcessWorkload(t)
    \/ \E t \in Callers : EnsureRecord(t)
    \/ \E t \in Callers : DeleteFilter(t)
    \/ \E t \in Callers : HasStep(t)
    \/ \E t \in Callers : AddStep(t)
    \/ \E t \in Callers : DeleteStep(t)
    \/ \E t \in Callers : Finish(t)
    \/ \E t \in ApiCallers : ApiCall(t)
    \/ \E t \in ApiCallers : ApiReturn(t)
    \/ CtxCancel

SpecEngine == Init /\ [][NextEngine]_vars

\* The Reconciler with its callers scheduled: the goroutine holding the lock
\* takes its next step (every platform and gateway request returns), a caller
\* takes the result of its finished call, and sync.Mutex hands the lock to a
\* goroutine that keeps waiting for it (its starvation mode).
BodyStep ==
    \E t \in Callers :
        \/ ListStep(t) \/ ProcessWorkload(t) \/ EnsureRecord(t) \/ DeleteFilter(t)
        \/ HasStep(t) \/ AddStep(t) \/ DeleteStep(t) \/ Finish(t)

SpecEngineLive ==
    /\ SpecEngine
    /\ WF_vars(BodyStep)
    /\ \A t \in ApiCallers : WF_vars(ApiReturn(t))
    /\ \A t \in ApiCallers : SF_vars(~ResultPending /\ Lock(t))

\* ============================================================ properties
InBody(t)  == call[t].pc \in {"list", "workload", "host", "has", "add", "delete", "finish"}
Returned_(t, op) == call[t].pc = "returned" /\ call[t].op = op
Count(q, P(_)) == Cardinality({i \in DOMAIN q : P(q[i])})

\* C1: at most one of Reconcile, ReconcileHostnames and DeleteHostnames is
\* inside its body at any time, and the gateway never serves a pass again
\* after it has served a request of another pass.
C1_OnePassAtATime ==
    /\ Cardinality({t \in Callers : InBody(t)}) <= 1
    /\ ~gateway.mixed

\* two callers contend: one is in its body and was the last the gateway
\* served, the other, calling another entry point, waits for the lock
C1_Witness ==
    \E t, u \in Callers :
        /\ InBody(t) /\ call[t].calls # <<>>
        /\ call[u].pc = "lock" /\ call[u].op # call[t].op
        /\ gateway.last = call[t].pass

Created(tm) == {i \in TimerIds : tm[i].state # "unused"}
Fired(tm)   == {i \in TimerIds : tm[i].state \in {"fired", "done"}}
Stopped(tm) == {i \in TimerIds : tm[i].state = "stopped"}

\* C2: the events of one batch (the event that takes the watcher from Idle to
\* PendingReconcile and all that follow before the timer fires) cause one
\* Reconcile call: the timer functions have called Reconcile at most once per
\* batch, and exactly once per batch when no timer is armed or was stopped.
C2_OneReconcilePerBatch ==
    /\ watcherCalls <= batches
    /\ Cardinality(Created(timer)) = batches
    /\ (Armed(timer) = {} /\ Stopped(timer) = {}) => watcherCalls = batches

\* a batch of at least two events has fired and caused its one call
C2_Witness ==
    /\ batches = 1 /\ batchEvents >= 2
    /\ Fired(timer) # {} /\ watcherCalls = 1

\* C3: at most one timer is armed, and an armed timer expires exactly one
\* debounce interval after the first event of its batch, whatever events
\* followed that one.
C3_FixedWindow ==
    /\ Cardinality(Armed(timer)) <= 1
    /\ \A i \in Armed(timer) : timer[i].remaining + batchAge = DebounceInterval

\* a timer about to fire, a full interval after the first of several events
C3_Witness ==
    /\ batchEvents >= 2
    /\ \E i \in Armed(timer) : timer[i].remaining = 0 /\ batchAge = DebounceInterval

AllCalls == UNION {Range(call[t].calls) : t \in Callers}

HostSet(labels) == UNION {Range(q) : q \in ExtractHosts(labels)}

\* the filter-passing entries of a hostname list / of the workloads of a listing
PassingIn(arg) == Cardinality({i \in DOMAIN arg : MatchesFilters(cfg, arg[i])})
PassingOf(ws)  ==
    Cardinality({p \in (DOMAIN ws) \X Hosts :
                    p[2] \in HostSet(ws[p[1]].Labels) /\ MatchesFilters(cfg, p[2])})
FoundIn(ws) ==
    Cardinality({p \in (DOMAIN ws) \X Hosts : p[2] \in HostSet(ws[p[1]].Labels)})

EnsureOutcomes == {"dryrun", "created", "existed", "error"}

\* C5: outside dry-run, when two ensures of the same hostname follow each
\* other in a pass and the first reports "created", the second, unless a
\* request of it fails, reports "already present", and the two together send
\* exactly one create request.
C5_EnsureIdempotent ==
    \A t \in Callers :
        LET tr == call[t].trace
        IN  \A i \in 1..(Len(tr) - 1) :
              (/\ tr[i].outcome = "created"
               /\ tr[i + 1].host = tr[i].host
               /\ tr[i + 1].outcome # "error")
              => /\ tr[i + 1].outcome = "existed"
                 /\ Count(call[t].calls,
                          LAMBDA gc : gc.kind = "add" /\ gc.n \in {i, i + 1}) = 1

\* created, then already present, for one hostname ensured twice in a row
C5_Witness ==
    \E t \in Callers :
        LET tr == call[t].trace
        IN  /\ ~cfg.DryRun
            /\ \E i \in 1..(Len(tr) - 1) :
                 /\ tr[i].outcome = "created" /\ tr[i + 1].outcome = "existed"
                 /\ tr[i + 1].host = tr[i].host

\* C6: in dry-run no pass sends a create or delete request and the zone stays
\* as it was, while the returned creation counter (Reconcile,
\* ReconcileHostnames) and deletion count (DeleteHostnames) count every
\* filter-passing hostname.
C6_DryRun ==
    cfg.DryRun =>
        /\ zone = InitialZone
        /\ \A t \in Callers :
             /\ \A gc \in Range(call[t].calls) : gc.kind \notin {"add", "delete"}
             /\ (call[t].pc = "returned" /\ call[t].op = OpReconcile /\ call[t].listed = "ok")
                    => call[t].ret.result.RecordsCreated = PassingOf(call[t].workloads)
             /\ (call[t].pc = "returned" /\ call[t].op = OpReconcileHostnames)
                    => call[t].ret.result.RecordsCreated = PassingIn(call[t].arg)
             /\ (call[t].pc = "returned" /\ call[t].op = OpDeleteHostnames)
                    => call[t].ret.deleted = PassingIn(call[t].arg)

\* a dry-run Reconcile after an earlier pass: three hostnames counted as
\* created, one filtered out, nothing sent
C6_Witness ==
    /\ cfg.DryRun
    /\ \E t \in Callers :
         /\ Returned_(t, OpReconcile) /\ call[t].pass >= 2
         /\ call[t].ret.result.RecordsCreated = 3
         /\ call[t].ret.result.HostnamesFound = 4
         /\ call[t].calls = <<>>

\* C7: a Reconcile whose listing failed has returned at once, with an error
\* and no result, and has sent nothing to the gateway.
C7_ListingFailureIsFatal ==
    \A t \in Callers :
        call[t].listed = "failed" =>
            /\ call[t].pc = "returned"
            /\ call[t].ret.isNil
            /\ call[t].ret.err # NoError
            /\ call[t].calls = <<>>

\* a listing failed, with the context alive and after an earlier pass
C7_Witness ==
    \E t \in Callers :
        /\ call[t].listed = "failed" /\ call[t].pc = "returned"
        /\ ~cancelled /\ call[t].pass >= 2 /\ gateway.last # 0

\* C8: a Reconcile whose listing succeeded returns a result and no error; it
\* has processed every listed workload in order, holds one error for each
\* workload that failed, and its counters count every successful ensure.
C8_WorkloadIsolation ==
    \A t \in Callers :
        (Returned_(t, OpReconcile) /\ call[t].listed = "ok") =>
            LET c == call[t]
                r == c.ret.result
            IN  /\ ~c.ret.isNil /\ c.ret.err = NoError
                /\ r.WorkloadsScanned = Len(c.workloads)
                /\ Len(c.visited) = Len(c.workloads)
                /\ \A i \in DOMAIN c.visited : c.visited[i].wi = i
                /\ \A i \in DOMAIN c.workloads :
                     Count(c.trace, LAMBDA e : e.wi = i /\ e.outcome = "error") <= 1
                /\ Len(r.Errors) = Count(c.trace, LAMBDA e : e.outcome = "error")
                /\ r.RecordsCreated = Count(c.trace, LAMBDA e : e.outcome \in {"created", "dryrun"})
                /\ r.RecordsExisted = Count(c.trace, LAMBDA e : e.outcome = "existed")

\* a workload failed and a later workload of the same pass got its record
C8_Witness ==
    \E t \in Callers :
        /\ Returned_(t, OpReconcile) /\ call[t].listed = "ok"
        /\ Len(call[t].ret.result.Errors) >= 1
        /\ \E j, k \in DOMAIN call[t].trace :
             /\ j < k /\ call[t].trace[j].wi < call[t].trace[k].wi
             /\ call[t].trace[j].outcome = "error"
             /\ call[t].trace[k].outcome \in {"created", "existed"}

\* C9 as claimed: after a Reconcile whose listing succeeded, every hostname of
\* every listed workload is counted as found, has had the Filter applied and,
\* when it passes, is counted as passing and has had the ensure performed.
C9_EveryHostnameEnsured ==
    \A t \in Callers :
        (Returned_(t, OpReconcile) /\ call[t].listed = "ok") =>
            LET c == call[t]
                r == c.ret.result
            IN  /\ r.HostnamesFound = FoundIn(c.workloads)
                /\ r.HostnamesFiltered = PassingOf(c.workloads)
                /\ \A i \in DOMAIN c.workloads : \A h \in HostSet(c.workloads[i].Labels) :
                     \E e \in Range(c.trace) :
                        /\ e.wi = i /\ e.host = h
                        /\ IF MatchesFilters(cfg, h) THEN e.outcome \in EnsureOutcomes
                           ELSE e.outcome = "filtered"

\* C9 amended: every extracted hostname is counted as found; the hostnames of
\* a workload are taken in the order extracted, and each one up to and
\* including the first whose ensure fails has had the Filter applied and, when
\* it passes, is counted as passing and has had the ensure performed; the
\* hostnames of that workload after a failed ensure are skipped.
C9_EnsuredUpToFailure ==
    \A t \in Callers :
        (Returned_(t, OpReconcile) /\ call[t].listed = "ok") =>
            LET c == call[t]
                r == c.ret.result
            IN  /\ r.HostnamesFound = FoundIn(c.workloads)
                /\ r.HostnamesFiltered = Count(c.trace, LAMBDA e : e.outcome # "filtered")
                /\ \A i \in DOMAIN c.visited :
                     LET hs == c.visited[i].hosts
                         es == SelectSeq(c.trace, LAMBDA e : e.wi = i)
                     IN  /\ Range(hs) = HostSet(c.workloads[i].Labels)
                         /\ Len(es) <= Len(hs)
                         /\ \A k \in DOMAIN es :
                              /\ es[k].host = hs[k]
                              /\ IF MatchesFilters(cfg, hs[k])
                                 THEN es[k].outcome \in EnsureOutcomes
                                 ELSE es[k].outcome = "filtered"
                              /\ (k < Len(es) => es[k].outcome # "error")
                         /\ (Len(es) < Len(hs) => es # <<>> /\ es[Len(es)].outcome = "error")

\* a workload with two hostnames, both ensured; and one cut short by a failure
C9_Witness ==
    \E t \in Callers :
        /\ Returned_(t, OpReconcile) /\ call[t].listed = "ok"
        /\ \E i \in DOMAIN call[t].visited :
             /\ Len(call[t].visited[i].hosts) = 2
             /\ Count(call[t].trace, LAMBDA e : e.wi = i) = 1
        /\ \E i \in DOMAIN call[t].visited :
             /\ Len(call[t].visited[i].hosts) = 2
             /\ Count(call[t].trace, LAMBDA e : e.wi = i /\ e.outcome \in {"created", "existed"}) = 2

\* C10: ReconcileHostnames returns a result and a nil error for every list;
\* every hostname of the list has been handled in order, each failed ensure
\* has added one error, and the hostnames after a failure were still ensured.
C10_PartialNeverFails ==
    \A t \in Callers :
        Returned_(t, OpReconcileHostnames) =>
            LET c == call[t]
                r == c.ret.result
            IN  /\ ~c.ret.isNil /\ c.ret.err = NoError
                /\ r.HostnamesFound = Len(c.arg)
                /\ Len(c.trace) = Len(c.arg)
                /\ \A k \in DOMAIN c.trace :
                     /\ c.trace[k].host = c.arg[k]
                     /\ IF MatchesFilters(cfg, c.arg[k])
                        THEN c.trace[k].outcome \in EnsureOutcomes
                        ELSE c.trace[k].outcome = "filtered"
                /\ Len(r.Errors) = Count(c.trace, LAMBDA e : e.outcome = "error")

\* the first hostname failed and the second got its record
C10_Witness ==
    \E t \in Callers :
        /\ Returned_(t, OpReconcileHostnames)
        /\ Len(call[t].trace) = 2
        /\ call[t].trace[1].outcome = "error"
        /\ call[t].trace[2].outcome \in {"created", "existed"}
        /\ Len(call[t].ret.result.Errors) = 1

\* what DeleteHostnames does for each hostname, apart from the returned count:
\* a delete request is sent only outside dry-run, for a filter-passing hostname
\* of the list, right after a successful lookup of the same hostname, while the
\* record with the target address is in the zone; every hostname of the list is
\* handled, whatever happened to the ones before it.
DeleteDiscipline(t) ==
    LET c == call[t]
    IN  /\ \A j \in DOMAIN c.calls :
             c.calls[j].kind = "delete" =>
                /\ ~cfg.DryRun
                /\ c.calls[j].domain = c.arg[c.calls[j].n]
                /\ c.calls[j].ip = cfg.TargetIP
                /\ MatchesFilters(cfg, c.calls[j].domain)
                /\ j > 1
                /\ c.calls[j - 1].kind = "get" /\ c.calls[j - 1].ok
                /\ c.calls[j - 1].n = c.calls[j].n
                /\ c.calls[j - 1].domain = c.calls[j].domain
        /\ c.pc = "delete" => HasARecord(zone, c.hosts[c.hi], cfg.TargetIP)
        /\ c.pc = "returned" =>
             /\ c.ret.err = NoError
             /\ Len(c.trace) = Len(c.arg)
             /\ \A k \in DOMAIN c.trace :
                  /\ c.trace[k].host = c.arg[k]
                  /\ c.trace[k].outcome = "filtered" <=> ~MatchesFilters(cfg, c.arg[k])
                  /\ c.trace[k].outcome = "deleted" <=>
                        \E j \in DOMAIN c.calls :
                            c.calls[j].kind = "delete" /\ c.calls[j].ok /\ c.calls[j].n = k

\* the hostnames a DeleteHostnames call deleted
DeletedBy(c) == Count(c.calls, LAMBDA gc : gc.kind = "delete" /\ gc.ok)

\* C11 as claimed: DeleteHostnames deletes only filter-passing hostnames whose
\* record the lookup just found, skips the others without stopping, and
\* returns the number of hostnames deleted.
C11_DeleteCountsDeleted ==
    \A t \in Callers :
        call[t].op = OpDeleteHostnames =>
            /\ DeleteDiscipline(t)
            /\ call[t].pc = "returned" => call[t].ret.deleted = DeletedBy(call[t])

\* C11 amended: as claimed outside dry-run; in dry-run no lookup or delete is
\* sent and the returned count is the number of filter-passing hostnames of the
\* list, none of which was deleted.
C11_DeleteOnlyAfterCheck ==
    \A t \in Callers :
        call[t].op = OpDeleteHostnames =>
            /\ DeleteDiscipline(t)
            /\ call[t].pc = "returned" =>
                 IF cfg.DryRun
                 THEN /\ call[t].calls = <<>>
                      /\ call[t].ret.deleted = PassingIn(call[t].arg)
                 ELSE call[t].ret.deleted = DeletedBy(call[t])

\* the lookup of the first hostname failed, the second hostname was deleted
C11_Witness ==
    \E t \in Callers :
        /\ Returned_(t, OpDeleteHostnames)
        /\ Len(call[t].trace) = 2
        /\ call[t].trace[1].outcome = "error"
        /\ call[t].trace[2].outcome = "deleted"
        /\ call[t].ret.deleted = 1
        /\ ~HasARecord(zone, call[t].arg[2], cfg.TargetIP)

\* the zone holds an A record of the hostname with the configured target address
TargetRecordIn(z, hostname) ==
    \E r \in z : r.name = hostname /\ r.type = "A" /\ r.ip = cfg.TargetIP

\* the requests a pass sent for its k-th hostname
CallsFor(c, k) == SelectSeq(c.calls, LAMBDA gc : gc.n = k)

\* C12: EnsureARecord sends a create exactly when its query succeeded and found
\* no A record with the target address: "already present" comes from one
\* successful query that found the record, "created" from a successful query
\* that found none followed by one create, and a failed query ends the ensure
\* with its error and no create.
C12_EnsureARecord ==
    \A t \in Callers :
        call[t].op \in {OpReconcile, OpReconcileHostnames} =>
            LET c == call[t]
            IN  /\ c.pc = "add" =>
                     /\ ~TargetRecordIn(zone, c.hosts[c.hi])
                     /\ c.calls # <<>>
                     /\ c.calls[Len(c.calls)].kind = "get" /\ c.calls[Len(c.calls)].ok
                     /\ c.calls[Len(c.calls)].domain = c.hosts[c.hi]
                /\ \A j \in DOMAIN c.calls :
                     c.calls[j].kind = "add" =>
                        /\ c.calls[j].ip = cfg.TargetIP /\ c.calls[j].ttl = cfg.TTL
                        /\ c.calls[j].zone = cfg.TechnitiumZone
                /\ \A k \in DOMAIN c.trace :
                     LET q == CallsFor(c, k)
                         e == c.trace[k]
                     IN  /\ \A j \in DOMAIN q : q[j].domain = e.host
                         /\ CASE e.outcome = "existed" ->
                                   /\ Len(q) = 1 /\ q[1].kind = "get" /\ q[1].ok
                                   /\ InBody(t) => TargetRecordIn(zone, e.host)
                              [] e.outcome = "created" ->
                                   /\ Len(q) = 2
                                   /\ q[1].kind = "get" /\ q[1].ok
                                   /\ q[2].kind = "add" /\ q[2].ok
                                   /\ InBody(t) => TargetRecordIn(zone, e.host)
                              [] e.outcome = "error" ->
                                   \/ Len(q) = 1 /\ q[1].kind = "get" /\ ~q[1].ok
                                   \/ /\ Len(q) = 2
                                      /\ q[1].kind = "get" /\ q[1].ok
                                      /\ q[2].kind = "add" /\ ~q[2].ok
                              [] OTHER -> q = <<>>
                /\ LET failed == SelectSeq(c.trace, LAMBDA e : e.outcome = "error")
                   IN  /\ Len(c.result.Errors) = Len(failed)
                       /\ \A m \in DOMAIN failed : c.result.Errors[m].host = failed[m].host

\* one pass found a record in place, created another, and had a create fail
C12_Witness ==
    \E t \in Callers :
        /\ call[t].pc = "returned"
        /\ \E i, j, k \in DOMAIN call[t].trace :
             /\ call[t].trace[i].outcome = "existed"
             /\ call[t].trace[j].outcome = "created"
             /\ call[t].trace[k].outcome = "error"
             /\ Len(CallsFor(call[t], k)) = 2

\* C13: a firing timer calls Reconcile, once; the timer function ends by
\* clearing pendingReconcile whether Reconcile returned a result or an error;
\* and while the process lives every fired timer gets there.
C13_TimerReturnsToIdle ==
    /\ [](watcherCalls = Cardinality(Fired(timer)))
    /\ [][\A i \in TimerIds :
            /\ (timer[i].state = "armed" /\ timer'[i].state = "fired")
                  => /\ call'[TimerCaller(i)].pc = "lock"
                     /\ call'[TimerCaller(i)].op = OpReconcile
                     /\ watcherCalls' = watcherCalls + 1
            /\ (timer[i].state = "fired" /\ timer'[i].state = "done")
                  => /\ call[TimerCaller(i)].pc = "returned"
                     /\ ~watcher'.pendingReconcile
            /\ (timer[i].state = "fired" /\ timer'[i].state # "done")
                  => timer'[i].state = "fired"]_vars
    /\ (\E i \in TimerIds : timer[i].state = "fired")
          ~> (~Alive \/ \A i \in TimerIds : timer[i].state # "fired")

\* the first timer's Reconcile failed at the listing, its function has ended,
\* and a later event has armed a second timer
C13_Witness ==
    /\ ~cfg.ReconcileOnStartup
    /\ timer[1].state = "done" /\ timer[2].state = "armed"
    /\ nextPass = 1 /\ faults = 1 /\ gateway.last = 0 /\ errCh = "empty"
    /\ watcher.pendingReconcile

\* C14: a watcher that stops after the context was cancelled, with no stream
\* failure pending, returns the cancellation error itself and is not reported
\* as a fatal error, whether it took the ctx.Done() case or the errCh case.
C14_CancelIsCleanStop ==
    [][(cancelled /\ errCh # "stream" /\ watcher.pc = "loop" /\ watcher'.pc = "returned")
          => (watcher'.ret = "canceled" /\ ~WatcherFatal')]_vars

\* C15: a stream failure taken from errCh makes Watch return the wrapped error,
\* which counts as fatal; a returned Watch never runs or subscribes again; and
\* run(), waiting in its select, then leaves it, cancels and returns.
C15_StreamErrorIsFatal ==
    /\ [][(watcher.pc = "loop" /\ errCh = "stream" /\ errCh' # "stream")
            => /\ watcher'.pc = "returned" /\ watcher'.ret = "wrapped stream"
               /\ WatcherFatal'
               /\ errCh' = "closed"]_vars
    /\ [][watcher.pc = "returned"
            => /\ watcher'.pc = "returned" /\ watcher'.ret = watcher.ret
               /\ (errCh = "closed" => errCh' = "closed")]_vars
    /\ (WatcherFatal /\ mainPc = "running") ~> (cancelled /\ mainPc = "exited")

\* the stream broke with a timer armed, Watch returned the wrapped error and
\* the process has shut down
C15_Witness ==
    /\ watcher.pc = "returned" /\ watcher.ret = "wrapped stream"
    /\ errCh = "closed"
    /\ faults = 1 /\ nEvents > 0
    /\ cancelled /\ mainPc = "exited"

\* C16: when Watch takes the ctx.Done() case with its debounce timer armed, the
\* timer is stopped in that step; a stopped timer stays stopped and its
\* function never runs, so it never calls Reconcile.
C16_StoppedTimerNeverFires ==
    /\ [][\A i \in TimerIds :
            (/\ watcher.pc = "loop" /\ watcher.debounceTimer = i
             /\ timer[i].state = "armed"
             /\ watcher'.pc = "returned" /\ watcher'.ret = "canceled")
               => timer'[i].state = "stopped"]_vars
    /\ [][\A i \in TimerIds :
            timer[i].state = "stopped"
               => /\ timer'[i].state = "stopped"
                  /\ call'[TimerCaller(i)].pc = "idle"
                  /\ watcherCalls' = Cardinality(Fired(timer'))]_vars
    /\ [](\A i \in TimerIds :
            timer[i].state = "stopped" => call[TimerCaller(i)].pc = "idle")

\* the second batch's timer was stopped by the cancellation after its deadline
\* had passed, while the first batch's timer had run its Reconcile
C16_Witness ==
    /\ watcher.pc = "returned" /\ watcher.ret = "canceled"
    /\ timer[1].state = "done" /\ timer[2].state = "stopped"
    /\ batchAge >= DebounceInterval
    /\ watcherCalls = 1

\* C17: the lock is held only by a caller inside the body of an entry point,
\* every return of an entry point, failed listing included, is made by the
\* holder and leaves the lock free, and a caller waiting for the lock gets it.
C17_LockAlwaysReleased ==
    /\ [](\A t \in Callers : mu = t => InBody(t))
    /\ [][\A t \in Callers :
            (InBody(t) /\ call'[t].pc = "returned") => (mu = t /\ mu' = NoHolder)]_vars
    /\ \A t \in ApiCallers : (call[t].pc = "lock") ~> (mu = t)

\* the first pass ended at its listing, which failed on the cancelled context;
\* the caller that waited meanwhile now holds the lock for the second pass
C17_Witness ==
    \E t \in ApiCallers, u \in ApiCallers :
        /\ t # u
        /\ cancelled /\ faults = 0 /\ gateway.last = 0
        /\ call[t].pc = "idle"
        /\ mu = u /\ call[u].pass = 2 /\ call[u].pc = "list"

\* the failed requests of a pass and what followed them
FailedCalls(c) == {i \in DOMAIN c.calls : ~c.calls[i].ok}

\* C18 (as claimed): in a reconciliation pass, after a request for a hostname
\* has failed the gateway gets no further request for that hostname.
C18_NoCallAfterFailure ==
    \A t \in Callers :
        call[t].op \in {OpReconcile, OpReconcileHostnames} =>
            \A i \in FailedCalls(call[t]) :
                \A j \in DOMAIN call[t].calls :
                    j > i => call[t].calls[j].domain # call[t].calls[i].domain

\* C18: in a reconciliation pass a failed request is the last one sent for that
\* occurrence of the hostname, and the occurrence ends as an error of the
\* result; a later occurrence of the same hostname is asked for again.
C18_NoRetryOfFailedEnsure ==
    \A t \in Callers :
        call[t].op \in {OpReconcile, OpReconcileHostnames} =>
            LET c == call[t]
            IN  \A i \in FailedCalls(c) :
                    /\ \A j \in DOMAIN c.calls : j > i => c.calls[j].n > c.calls[i].n
                    /\ c.calls[i].n \in DOMAIN c.trace
                    /\ c.trace[c.calls[i].n].outcome = "error"
                    /\ c.trace[c.calls[i].n].host = c.calls[i].domain
                    /\ \E m \in DOMAIN c.result.Errors :
                          /\ c.result.Errors[m].host = c.calls[i].domain
                          /\ c.result.Errors[m].kind = c.calls[i].kind

\* a returned pass whose request for a hostname failed and which, meeting the
\* hostname again later, created its record
C18_Witness ==
    \E t \in Callers :
        /\ call[t].pc = "returned"
        /\ \E i \in FailedCalls(call[t]) :
              \E j \in DOMAIN call[t].calls :
                  /\ j > i
                  /\ call[t].calls[j].domain = call[t].calls[i].domain
                  /\ call[t].calls[j].kind = "add" /\ call[t].calls[j].ok
        /\ Len(call[t].ret.result.Errors) = 1
        /\ call[t].ret.result.RecordsCreated = 1

\* C19: every returned pass, full or partial, failed or not, has recorded its
\* outcome once, "error" exactly when it failed or holds errors, and has
\* reported each record it created or deleted.
C19_EveryPassRecorded ==
    \A t \in Callers :
        call[t].pc = "returned" =>
            LET c == call[t]
                failed == c.ret.err # NoError \/ Len(c.ret.result.Errors) > 0
            IN  /\ c.op \in {OpReconcile, OpReconcileHostnames} =>
                      c.metrics.reconciliations = <<IF failed THEN "error" ELSE "success">>
                /\ c.metrics.created = Count(c.calls, LAMBDA gc : gc.kind = "add" /\ gc.ok)
                /\ c.metrics.deleted = Count(c.calls, LAMBDA gc : gc.kind = "delete" /\ gc.ok)

\* C20: with startup reconciliation enabled, until the startup Reconcile has
\* returned to run() the server is not ready and /ready answers 503 whatever
\* the component checks say; the server becomes ready only in run()'s SetReady
\* step, which follows the startup pass.
C20_NotReadyBeforeStartupPass ==
    /\ [](cfg.ReconcileOnStartup =>
            /\ mainPc \in {"init", "startup"} =>
                  /\ ~ready
                  /\ \A h \in BOOLEAN : handleReady(ready, h) = StatusServiceUnavailable
            /\ ready => (nextPass >= 1 /\ call[MainCaller].pc = "idle"))
    /\ [][(~ready /\ ready') => (mainPc = "setready" /\ call[MainCaller].pc = "idle")]_vars
    /\ [][(cfg.ReconcileOnStartup /\ mainPc = "startup" /\ mainPc' # "startup")
            => (call[MainCaller].pc = "returned" /\ mainPc' = "setready" /\ ~ready')]_vars

\* the startup pass has found one record in place and is about to create
\* another; the server is still not ready
C20_Witness ==
    /\ cfg.ReconcileOnStartup
    /\ mainPc = "startup"
    /\ call[MainCaller].pc = "add"
    /\ call[MainCaller].result.RecordsExisted = 1
    /\ ~ready
    /\ handleReady(ready, TRUE) = StatusServiceUnavailable

\* C21: every /health request is answered with 200, whichever of the
\* registered checkers pass or fail and whatever the readiness flag is.
C21_HealthAlways200 ==
    applied.fn = "handleHealth" => applied.out.code = StatusOK

\* before the server is ready, with both checkers failing, /health answered
\* 200 with the status degraded
C21_Witness ==
    /\ applied.fn = "handleHealth"
    /\ ~applied.in.ready
    /\ DOMAIN applied.in.checks = CheckerNames
    /\ \A n \in CheckerNames : ~applied.in.checks[n]
    /\ applied.out.code = StatusOK /\ applied.out.status = StatusDegraded

\* the A records with the target address that have left the zone
Lost(z) == {r \in InitialZone : r.ip = cfg.TargetIP /\ r \notin z}

\* C22: once a remove / die / destroy event has been handled and the pass it
\* caused has run to its end, the zone has lost an A record, or the watcher
\* has sent a delete request for one. (The events carry no workload here, so
\* this is the least the claim says of any stopped workload with a record.)
C22_StoppedWorkloadRecordDeleted ==
    (/\ sawRemoval
     /\ ~watcher.pendingReconcile
     /\ \A i \in TimerIds : timer[i].state \in {"unused", "done"})
        => \/ Lost(zone) # {}
           \/ \E gc \in Range(watcherGw) : gc.kind = "delete"

\* C23: MatchesFilters is true exactly when the hostname matches the include
\* pattern (an absent one matches everything) and does not match the exclude
\* pattern (an absent one matches nothing).
C23_MatchesFilters ==
    applied.fn = "MatchesFilters" =>
        LET in == applied.in
            included == in.include.nil \/ in.hostname \in in.include.matches
            excluded == ~in.exclude.nil /\ in.hostname \in in.exclude.matches
        IN  applied.out = (included /\ ~excluded)

\* a hostname matched by both patterns was rejected
C23_Witness ==
    /\ applied.fn = "MatchesFilters"
    /\ ~applied.in.include.nil /\ applied.in.hostname \in applied.in.include.matches
    /\ ~applied.in.exclude.nil /\ applied.in.hostname \in applied.in.exclude.matches
    /\ applied.out = FALSE

\* C24: outside dry-run, when a hostname ensured for one workload of a
\* Reconcile comes up again for another workload, it is looked up again with
\* a request of its own and, unless that fails, found already present; of
\* the two ensures at most the first creates, and each occurrence counts in
\* 'hostnames found'.
C24_NoCrossWorkloadDedup ==
    \A t \in Callers :
        (call[t].op = OpReconcile /\ ~cfg.DryRun) =>
            LET c  == call[t]
                tr == c.trace
            IN  /\ \A k \in DOMAIN tr : \A m \in DOMAIN tr :
                      (/\ k < m
                       /\ tr[k].host = tr[m].host /\ tr[k].wi # tr[m].wi
                       /\ tr[k].outcome \in {"created", "existed"}
                       /\ tr[m].outcome # "error")
                      => /\ tr[m].outcome = "existed"
                         /\ CallsFor(c, k) # <<>> /\ CallsFor(c, k)[1].kind = "get"
                         /\ CallsFor(c, m) # <<>> /\ CallsFor(c, m)[1].kind = "get"
                         /\ \A j \in DOMAIN CallsFor(c, m) : CallsFor(c, m)[j].kind # "add"
                /\ (c.pc = "returned" /\ c.listed = "ok")
                      => c.ret.result.HostnamesFound = FoundIn(c.workloads)

\* a returned pass that created the record of a hostname for one workload and
\* found it present for a different workload, counting four hostnames found
C24_Witness ==
    \E t \in Callers :
        /\ Returned_(t, OpReconcile) /\ ~cfg.DryRun
        /\ call[t].ret.result.Errors = <<>>
        /\ call[t].ret.result.HostnamesFound = 4
        /\ \E k \in DOMAIN call[t].trace : \E m \in DOMAIN call[t].trace :
              /\ k < m
              /\ call[t].trace[k].host = call[t].trace[m].host
              /\ call[t].workloads[call[t].trace[k].wi].ID # call[t].workloads[call[t].trace[m].wi].ID
              /\ call[t].trace[k].outcome = "created"
              /\ call[t].trace[m].outcome = "existed"

\* C25: a Reconcile whose listing succeeded and held no workload returns a
\* result with every counter zero and no errors, returns no error, and has sent
\* nothing to the gateway.
C25_ZeroWorkloads ==
    \A t \in Callers :
        (Returned_(t, OpReconcile) /\ call[t].listed = "ok" /\ call[t].workloads = <<>>) =>
            /\ call[t].ret.result = ZeroResult
            /\ ~call[t].ret.isNil /\ call[t].ret.err = NoError
            /\ call[t].calls = <<>> /\ call[t].trace = <<>>

\* the second pass found the platform empty, after a first pass that had
\* used the gateway
C25_Witness ==
    \E t \in Callers :
        /\ Returned_(t, OpReconcile) /\ call[t].listed = "ok" /\ call[t].workloads = <<>>
        /\ call[t].pass = 2 /\ gateway.last = 1
        /\ call[t].ret.result.WorkloadsScanned = 0

\* a workload none of whose labels is a router rule
NoRuleLabels(w) == \A key \in DOMAIN w.Labels : ~isRouterRuleLabel(key)

\* C26: processing a workload without router-rule labels changes neither the
\* counters nor the error list of the result and sends no request: the pass
\* moves on to the next workload; the workload still counts as scanned.
C26_NoRoutingLabels ==
    /\ [][\A t \in Callers :
            (/\ call[t].pc = "workload"
             /\ NoRuleLabels(call[t].workloads[call[t].wi])
             /\ call'[t] # call[t])
               => /\ call'[t].result = call[t].result
                  /\ call'[t].calls = call[t].calls
                  /\ call'[t].trace = call[t].trace
                  /\ call'[t].visited =
                        Append(call[t].visited, [wi |-> call[t].wi, hosts |-> <<>>])
                  /\ \/ call'[t].pc = "workload" /\ call'[t].wi = call[t].wi + 1
                     \/ call'[t].pc = "finish" /\ call[t].wi = Len(call[t].workloads)]_vars
    /\ [](\A t \in Callers :
            (Returned_(t, OpReconcile) /\ call[t].listed = "ok") =>
                /\ call[t].ret.result.WorkloadsScanned = Len(call[t].workloads)
                /\ \A i \in DOMAIN call[t].workloads :
                     NoRuleLabels(call[t].workloads[i]) =>
                        \A k \in DOMAIN call[t].trace : call[t].trace[k].wi # i)

\* a returned pass over three workloads, the second without router-rule
\* labels: three scanned, four hostnames found, no errors
C26_Witness ==
    \E t \in Callers :
        /\ Returned_(t, OpReconcile) /\ call[t].listed = "ok"
        /\ Len(call[t].workloads) = 3 /\ NoRuleLabels(call[t].workloads[2])
        /\ call[t].visited[2].hosts = <<>>
        /\ call[t].ret.result.WorkloadsScanned = 3
        /\ call[t].ret.result.HostnamesFound = 4
        /\ call[t].ret.result.Errors = <<>>

\* C27: the event handlers send nothing to the gateway; receiving an event
\* leaves the zone, the gateway, the lock and every call into the Reconciler
\* as they were and at most arms one timer; and the only entry point a timer
\* function ever calls is Reconcile.
C27_WatcherOnlyTriggers ==
    /\ [](watcherGw = <<>>)
    /\ [][nEvents' # nEvents =>
            /\ zone' = zone /\ gateway' = gateway /\ mu' = mu /\ call' = call
            /\ nextPass' = nextPass
            /\ \/ timer' = timer
               \/ \E i \in TimerIds :
                     /\ timer[i].state = "unused"
                     /\ timer' = [timer EXCEPT ![i] = ArmedTimer]]_vars
    /\ [](\A i \in TimerIds : call[TimerCaller(i)].op \in {"none", OpReconcile})

\* every event has been received, the last into a batch already pending, and
\* the Reconcile called by a timer function is sending requests
C27_Witness ==
    /\ nEvents = MaxEvents /\ batches < nEvents
    /\ watcherGw = <<>>
    /\ \E i \in TimerIds :
          /\ call[TimerCaller(i)].op = OpReconcile
          /\ call[TimerCaller(i)].pc = "add"
          /\ call[TimerCaller(i)].calls # <<>>

\* a slice without a repeated element
NoDuplicates(q) == \A i, j \in DOMAIN q : q[i] = q[j] => i = j

\* the router rule labels of a label map
RuleLabels(labels) == {k \in DOMAIN labels : isRouterRuleLabel(k)}

\* C28 as stated: two calls of ExtractHosts with the same label map return
\* the same hostnames in the same order, without duplicates, and an empty
\* label map yields an empty list.
C28_OrderStable ==
    applied.fn = "ExtractHosts" =>
        /\ applied.out.first = applied.out.second
        /\ NoDuplicates(applied.out.first)
        /\ (applied.in.labels = NoLabels => applied.out.first = <<>>)

\* C28 amended: two calls of ExtractHosts with the same label map return the
\* same set of hostnames, each without duplicates; the order is the same
\* whenever at most one router rule label is present (across labels it
\* follows the map's iteration order); an empty label map yields an empty
\* list.
C28_SameHostsNoDuplicates ==
    applied.fn = "ExtractHosts" =>
        /\ Range(applied.out.first) = Range(applied.out.second)
        /\ NoDuplicates(applied.out.first)
        /\ NoDuplicates(applied.out.second)
        /\ (Cardinality(RuleLabels(applied.in.labels)) <= 1
                => applied.out.first = applied.out.second)
        /\ (applied.in.labels = NoLabels
                => applied.out.first = <<>> /\ applied.out.second = <<>>)

\* two calls on one label map with two router rules, the second rule
\* repeating a hostname of the first, returned in two different orders
C28_Witness ==
    /\ applied.fn = "ExtractHosts"
    /\ applied.in.labels = PlatDuo.Labels
    /\ applied.out.first = <<HostWeb, HostApp>>
    /\ applied.out.second = <<HostApp, HostWeb>>

\* C29: the subscription filter of a started watcher is determined by the
\* mode alone (swarm: service events create, update, remove; standalone:
\* container events start, die, destroy) and neither the filter nor the mode
\* changes once Watch has subscribed.
C29_FilterByModeFixed ==
    /\ [](watcher.pc # "off" =>
            /\ dockerMode = ModeSwarm =>
                 /\ watcher.filterArgs.type = {"service"}
                 /\ watcher.filterArgs.event = {"create", "update", "remove"}
            /\ dockerMode = ModeStandalone =>
                 /\ watcher.filterArgs.type = {"container"}
                 /\ watcher.filterArgs.event = {"start", "die", "destroy"})
    /\ [][watcher.pc # "off" =>
            /\ watcher'.filterArgs = watcher.filterArgs
            /\ dockerMode' = dockerMode]_vars

\* a swarm-mode watcher that has received all its events, a removal among
\* them, and returned, still under the service filter
C29_Witness ==
    /\ dockerMode = ModeSwarm
    /\ watcher.pc = "returned"
    /\ nEvents = MaxEvents
    /\ sawRemoval
    /\ watcher.filterArgs = [type |-> {"service"}, event |-> {"create", "update", "remove"}]

\* the first n characters of a string, or all of it when it is shorter
Truncated(s, n) == SubSeq(s, 1, IF Len(s) < n THEN Len(s) ELSE n)

\* C30: handleEvent never panics, for every service or container event: when
\* the event's name attribute is missing or empty the handler falls back to
\* the actor ID truncated to 12 characters, for actor IDs of every length.
C30_HandleEventNeverPanics ==
    (applied.fn = "handleEvent" /\ applied.in.Type \in {"service", "container"}) =>
        /\ ~applied.out.panicked
        /\ (\/ "name" \notin DOMAIN applied.in.Actor.Attributes
            \/ applied.in.Actor.Attributes["name"] = <<>>)
              => applied.out.name = Truncated(applied.in.Actor.ID, 12)

\* C31: in dry-run the result returned by any Reconcile or ReconcileHostnames,
\* first pass or repeated, has RecordsCreated equal to HostnamesFiltered,
\* RecordsExisted zero and no errors.
C31_DryRunCountsCreated ==
    cfg.DryRun =>
        \A t \in Callers :
            (/\ call[t].pc = "returned"
             /\ call[t].op \in {OpReconcile, OpReconcileHostnames}
             /\ ~call[t].ret.isNil)
            => /\ call[t].ret.result.RecordsCreated = call[t].ret.result.HostnamesFiltered
               /\ call[t].ret.result.RecordsExisted = 0
               /\ call[t].ret.result.Errors = <<>>

\* a repeated dry-run pass over a hostname whose record is already in the
\* zone: it is counted as created again
C31_Witness ==
    /\ cfg.DryRun
    /\ HasARecord(zone, HostWeb, cfg.TargetIP)
    /\ \E t \in Callers :
         /\ Returned_(t, OpReconcileHostnames) /\ call[t].pass >= 2
         /\ call[t].arg = <<HostTest, HostWeb>>
         /\ call[t].ret.result.RecordsCreated = 1
         /\ call[t].ret.result.HostnamesFiltered = 1
         /\ call[t].ret.result.RecordsExisted = 0

\* C32: a full pass is reported with status "error" exactly when its result
\* holds an error, otherwise "success"; the report sets the workloads-scanned
\* and hostnames-found gauges to the result's values for both statuses and
\* moves the last-success timestamp only for "success".
C32_ReportedStatus ==
    applied.fn = "reconciliationComplete" =>
        LET res    == applied.in.result
            before == applied.in.before
            after  == applied.out
            status == after.reconciliations[Len(after.reconciliations)]
        IN  /\ Len(after.reconciliations) = Len(before.reconciliations) + 1
            /\ status = "error" <=> res.Errors # <<>>
            /\ status = "success" <=> res.Errors = <<>>
            /\ after.workloadsScanned = res.WorkloadsScanned
            /\ after.hostnamesFound = res.HostnamesFound
            /\ status = "success" => after.lastSuccess = applied.in.now
            /\ status = "error" => after.lastSuccess = before.lastSuccess

\* a pass with an error reported after an earlier success: the gauges move,
\* the timestamp stays
C32_Witness ==
    /\ applied.fn = "reconciliationComplete"
    /\ Len(applied.in.result.Errors) = 1
    /\ applied.in.before.lastSuccess = 1
    /\ applied.in.now = 2
    /\ applied.out.reconciliations = <<"success", "error">>
    /\ applied.out.workloadsScanned = 1
    /\ applied.in.before.workloadsScanned = 2
    /\ applied.out.lastSuccess = 1

\* the watcher is running and nothing is left to happen until a further event
\* arrives: no timer is armed and no timer function is running
WatcherQuiet ==
    /\ Alive /\ ~cancelled
    /\ watcher.pc = "loop" /\ errCh = "empty"
    /\ \A i \in TimerIds : timer[i].state \notin {"armed", "fired"}

\* C33: every event the watcher receives is followed by a full Reconcile that
\* lists the workloads after the event was received, also when the event
\* arrives while a watcher-triggered Reconcile is running: with no failure
\* injected, a watcher that has come to rest has no event left that was
\* received after the last listing.
C33_EveryEventReconciled ==
    (WatcherQuiet /\ faults = 0) => ~unlisted

\* C34: the result returned by a Reconcile or ReconcileHostnames has
\* HostnamesFiltered = RecordsCreated + RecordsExisted + number of errors and
\* HostnamesFiltered <= HostnamesFound; the result of a Reconcile has at most
\* as many errors as workloads scanned.
C34_ResultAccounting ==
    \A t \in Callers :
        (/\ call[t].pc = "returned"
         /\ call[t].op \in {OpReconcile, OpReconcileHostnames}
         /\ ~call[t].ret.isNil)
        => LET res == call[t].ret.result
           IN  /\ res.HostnamesFiltered
                    = res.RecordsCreated + res.RecordsExisted + Len(res.Errors)
               /\ res.HostnamesFiltered <= res.HostnamesFound
               /\ call[t].op = OpReconcile => Len(res.Errors) <= res.WorkloadsScanned

\* a Reconcile over three workloads: four hostnames found, one filtered out,
\* two records in place, one ensure failed
C34_Witness ==
    \E t \in Callers :
        /\ Returned_(t, OpReconcile) /\ ~call[t].ret.isNil
        /\ call[t].ret.result.WorkloadsScanned = 3
        /\ call[t].ret.result.HostnamesFound = 4
        /\ call[t].ret.result.HostnamesFiltered = 3
        /\ call[t].ret.result.RecordsExisted = 2
        /\ call[t].ret.result.RecordsCreated = 0
        /\ Len(call[t].ret.result.Errors) = 1

\* the timers whose function has called Reconcile and has not yet handled
\* what it returned
InFlight == {i \in TimerIds : call[TimerCaller(i)].pc # "idle"}

\* C35: while the watcher runs, pendingReconcile false means that no timer is
\* armed and no watcher-triggered Reconcile is in progress; pendingReconcile
\* true means that a timer is armed or a watcher-triggered Reconcile is in
\* progress; at most one watcher-triggered Reconcile is in flight, and none
\* while a timer is armed.
C35_PendingMeansArmedOrRunning ==
    watcher.pc = "loop" =>
        /\ ~watcher.pendingReconcile => (Armed(timer) = {} /\ InFlight = {})
        /\ watcher.pendingReconcile => (Armed(timer) # {} \/ InFlight # {})
        /\ Cardinality(Armed(timer)) + Cardinality(InFlight) <= 1

\* the second batch: its timer armed after the Reconcile of the first batch
\* was done, a further event received while its Reconcile is running
C35_Witness ==
    /\ watcher.pc = "loop"
    /\ watcher.pendingReconcile
    /\ batches = 2
    /\ nEvents = 3
    /\ Armed(timer) = {}
    /\ \E i \in TimerIds : call[TimerCaller(i)].pc = "has"

\* C36: once Watch has returned, on cancellation or on a subscription error,
\* no timer function starts a Reconcile any more.
C36_NoReconcileAfterReturn ==
    [][watcher.pc = "returned" =>
          \A i \in TimerIds :
              call[TimerCaller(i)].pc = "idle" => call'[TimerCaller(i)].pc = "idle"]_vars

\* C37: when a Reconcile outside dry-run has just returned a result without
\* errors, every filter-passing hostname of the listed workloads has an A
\* record with the configured target in the zone, and every record the pass
\* created is in the configured zone, with the configured target and TTL.
C37_ReconcileEstablishesRecords ==
    \A t \in Callers :
        (/\ Returned_(t, OpReconcile) /\ ~call[t].ret.isNil
         /\ call[t].ret.result.Errors = <<>>
         /\ ~cfg.DryRun)
        => /\ \A i \in DOMAIN call[t].workloads :
                \A hostname \in HostSet(call[t].workloads[i].Labels) :
                    MatchesFilters(cfg, hostname) =>
                        \E r \in zone : /\ r.name = hostname /\ r.type = "A"
                                        /\ r.ip = cfg.TargetIP
           /\ \A e \in Range(call[t].trace) :
                e.outcome = "created" =>
                    [name |-> e.host, type |-> "A", ip |-> cfg.TargetIP, ttl |-> cfg.TTL]
                        \in zone
           /\ \A gc \in Range(call[t].calls) :
                gc.kind = "add" =>
                    /\ gc.zone = cfg.TechnitiumZone
                    /\ gc.ip = cfg.TargetIP
                    /\ gc.ttl = cfg.TTL

\* a pass over three workloads without errors: one record created, two found
\* in place, one hostname filtered out
C37_Witness ==
    /\ ~cfg.DryRun
    /\ \E t \in Callers :
         /\ Returned_(t, OpReconcile) /\ ~call[t].ret.isNil
         /\ call[t].ret.result.Errors = <<>>
         /\ call[t].ret.result.HostnamesFound = 4
         /\ call[t].ret.result.HostnamesFiltered = 3
         /\ call[t].ret.result.RecordsCreated = 1
         /\ call[t].ret.result.RecordsExisted = 2

\* the occurrences of filter-passing hostnames a pass has dealt with
PassedBy(c) == Count(c.trace, LAMBDA e : MatchesFilters(cfg, e.host))

\* C38: no pass sends a gateway request for a hostname the filter rejects; a
\* rejected hostname is only ever skipped, and the counters returned by
\* Reconcile, ReconcileHostnames and DeleteHostnames count occurrences of
\* filter-passing hostnames only.
C38_RejectedHostnameUntouched ==
    \A t \in Callers :
        LET c == call[t]
        IN  /\ \A gc \in Range(c.calls) : MatchesFilters(cfg, gc.domain)
            /\ \A e \in Range(c.trace) :
                 ~MatchesFilters(cfg, e.host) => e.outcome = "filtered"
            /\ (c.pc = "returned" /\ ~c.ret.isNil /\ c.op # OpDeleteHostnames) =>
                 /\ c.ret.result.HostnamesFiltered = PassedBy(c)
                 /\ c.ret.result.RecordsCreated + c.ret.result.RecordsExisted <= PassedBy(c)
            /\ (c.pc = "returned" /\ c.op = OpDeleteHostnames) =>
                 c.ret.deleted <= PassedBy(c)

\* ReconcileHostnames on a rejected hostname followed by one found in place:
\* a single lookup, for the second
C38_Witness ==
    /\ ~cfg.DryRun
    /\ \E t \in Callers :
         /\ Returned_(t, OpReconcileHostnames)
         /\ call[t].arg = <<HostTest, HostWeb>>
         /\ ~MatchesFilters(cfg, HostTest)
         /\ Len(call[t].calls) = 1 /\ call[t].calls[1].domain = HostWeb
         /\ call[t].trace[1].outcome = "filtered"
         /\ call[t].ret.result.HostnamesFound = 2
         /\ call[t].ret.result.HostnamesFiltered = 1
         /\ call[t].ret.result.RecordsExisted = 1

====
